---------------------------- MODULE Spec2Model ----------------------------
(***************************************************************************)
(* A model of the KleisDoc document persistence engine                     *)
(* (kleis-notebook/kleis_kernel/kleisdoc.py) and of the two Jupyter        *)
(* kernels (kernel.py, numeric_kernel.py).                                 *)
(*                                                                         *)
(* Text is modelled as a sequence of tokens.  A token is either one        *)
(* character of a user supplied string ("a", "(", the double quote, the    *)
(* backslash, the newline, ...) or one word that the program itself        *)
(* writes ("define", "EObject", "List", ...).  Parentheses, commas,        *)
(* quotes, blanks and newlines are always tokens of their own, so that     *)
(* the scanners of the program, which look at single characters, see       *)
(* them one by one.  User supplied strings never spell a word of the       *)
(* program.                                                                *)
(***************************************************************************)
EXTENDS Integers, Sequences, FiniteSets, TLC

VARIABLES
    ast,        \* codec: the expression tree handed to _ast_to_kleis
    kleis,      \* codec: the text _ast_to_kleis produced
    parsed,     \* codec: the tree _parse_ast_expr read back
    cpc,        \* codec: "tree" -> "text" -> "back"
    hforest,    \* hierarchy: the forest of sections to write (heap and roots)
    hflat,      \* hierarchy: the flat list of sections read back
    hbuilt,     \* hierarchy: what _build_section_hierarchy made of it
    hpc,        \* hierarchy: "forest" -> "flat" -> "built"
    doc,        \* document: the KleisDoc being edited
    file,       \* document: the text of the file that save wrote
    loaded,     \* document: the KleisDoc that load returned
    dpc,        \* document: "edit" -> "saved" -> "loaded" -> "resaved" -> "reloaded",
                \* "edit" -> "rendered"
    dcall,      \* document: the last call made and what it returned
    server,     \* rendering: self._server_available, "None" before the first check
    renderings, \* rendering: the calls of _equation_to_typst made so far
    kernel,     \* symbolic kernel: the KleisKernel object
    cells,      \* symbolic kernel: the cells executed so far and how they ended
    repl_process,  \* numeric kernel: self._repl_process, 0 for None
    procs,         \* numeric kernel: the REPL processes started so far
    readers,       \* numeric kernel: the threads running _read_output
    output_queue,  \* numeric kernel: self._output_queue
    main,          \* numeric kernel: where the thread that executes cells is
    returned       \* numeric kernel: what the calls of _send_command returned

codecVars == <<ast, kleis, parsed, cpc>>
hierVars == <<hforest, hflat, hbuilt, hpc>>
\* what an action of one part leaves alone: the variables of the other parts
docVars == <<doc, file, loaded, dpc, dcall>>
renderVars == <<server, renderings>>
kernelVars == <<kernel, cells>>
numericVars == <<repl_process, procs, readers, output_queue, main, returned>>
notCodec == <<hierVars, docVars, renderVars, kernelVars, numericVars>>
notHier == <<codecVars, docVars, renderVars, kernelVars, numericVars>>
notDoc == <<codecVars, hierVars, renderVars, kernelVars, numericVars>>
notKernel == <<codecVars, hierVars, docVars, renderVars, numericVars>>
notNumeric == <<codecVars, hierVars, docVars, renderVars, kernelVars>>
vars == <<ast, kleis, parsed, cpc, hforest, hflat, hbuilt, hpc, doc, file, loaded, dpc, dcall,
          server, renderings, kernel, cells,
          repl_process, procs, readers, output_queue, main, returned>>

\* Python's None where an expression tree is expected
NoneAst == [k |-> "None"]
\* no sections
NoForest == [heap |-> <<>>, roots |-> <<>>]

\* the variables of a part of the program that a specification does not run
CodecIdle == ast = NoneAst /\ kleis = <<>> /\ parsed = NoneAst /\ cpc = "off"
HierIdle == hforest = NoForest /\ hflat = <<>> /\ hbuilt = NoForest /\ hpc = "off"
DocIdle == doc = <<>> /\ file = <<>> /\ loaded = <<>> /\ dpc = "off" /\ dcall = <<>>
RenderIdle == server = "off" /\ renderings = <<>>
KernelIdle == kernel = <<>> /\ cells = <<>>
NumericIdle ==
    /\ repl_process = 0 /\ procs = <<>> /\ readers = <<>>
    /\ output_queue = <<>> /\ main = <<>> /\ returned = <<>>
\* every part but part g is idle; rendering works on the document
OthersIdle(g) ==
    /\ IF g = "codec" THEN TRUE ELSE CodecIdle
    /\ IF g = "hier" THEN TRUE ELSE HierIdle
    /\ IF g \in {"doc", "render"} THEN TRUE ELSE DocIdle
    /\ IF g = "render" THEN TRUE ELSE RenderIdle
    /\ IF g = "kernel" THEN TRUE ELSE KernelIdle
    /\ IF g = "numeric" THEN TRUE ELSE NumericIdle

---------------------------------------------------------------------------
(* Characters                                                              *)

Q  == "\""
BS == "\\"
NL == "\n"
SP == " "
LP == "("
RP == ")"
CM == ","

\* Python's str.isspace for the characters of the model
IsSpace(c) == c \in {SP, NL}

---------------------------------------------------------------------------
(* Sequence helpers                                                        *)

\* s[a..b] as Python's s[a-1:b]; empty when b < a
Slice(s, a, b) == IF b < a THEN <<>> ELSE SubSeq(s, a, b)

\* Python's s.startswith(p)
StartsWith(s, p) == Len(s) >= Len(p) /\ SubSeq(s, 1, Len(p)) = p

\* p occurs in s at position i
OccursAt(s, p, i) == i >= 1 /\ i + Len(p) - 1 <= Len(s) /\ SubSeq(s, i, i + Len(p) - 1) = p

\* the least element of a non-empty set of integers
Least(S) == CHOOSE x \in S : \A y \in S : x <= y

\* Python's s.strip(): drops the leading and trailing white space
Strip(s) ==
    LET keep == {i \in 1..Len(s) : ~IsSpace(s[i])}
    IN IF keep = {} THEN <<>>
       ELSE Slice(s, Least(keep), CHOOSE x \in keep : \A y \in keep : y <= x)

RECURSIVE Replace(_, _, _)
\* Python's s.replace(c, r) for a single character c
Replace(s, c, r) ==
    IF s = <<>> THEN <<>>
    ELSE (IF Head(s) = c THEN r ELSE <<Head(s)>>) \o Replace(Tail(s), c, r)

RECURSIVE Join(_, _)
\* Python's sep.join(parts)
Join(parts, sep) ==
    IF parts = <<>> THEN <<>>
    ELSE IF Len(parts) = 1 THEN parts[1]
    ELSE parts[1] \o sep \o Join(Tail(parts), sep)

\* the position of the first double quote of s at or after i, 0 if there is none
NextQuote(s, i) ==
    LET qs == {j \in i..Len(s) : s[j] = Q}
    IN IF qs = {} THEN 0 ELSE Least(qs)

---------------------------------------------------------------------------
(* Expression trees (EditorNode AST): a Python dict with one key           *)

Object(name) == [k |-> "Object", v |-> name]
Const(val) == [k |-> "Const", v |-> val]
Operation(name, args) == [k |-> "Operation", name |-> name, args |-> args]
Placeholder(id, hint) == [k |-> "Placeholder", id |-> id, hint |-> hint]
ListNode(items) == [k |-> "List", items |-> items]

\* str(n) for a natural number
RECURSIVE NatToStr(_)
NatToStr(n) ==
    LET digit(d) == CASE d = 0 -> "0" [] d = 1 -> "1" [] d = 2 -> "2" [] d = 3 -> "3"
                      [] d = 4 -> "4" [] d = 5 -> "5" [] d = 6 -> "6" [] d = 7 -> "7"
                      [] d = 8 -> "8" [] d = 9 -> "9"
    IN IF n < 10 THEN <<digit(n)>> ELSE NatToStr(n \div 10) \o <<digit(n % 10)>>

\* _to_kleis_string: escape backslash, double quote and newline, then quote
ToKleisString(s) ==
    <<Q>> \o Replace(Replace(Replace(s, BS, <<BS, BS>>), Q, <<BS, Q>>), NL, <<BS, "n">>) \o <<Q>>

RECURSIVE AstToKleis(_)
\* _ast_to_kleis
AstToKleis(a) ==
    LET each(xs) == [i \in 1..Len(xs) |-> AstToKleis(xs[i])]
    IN CASE a.k = "None" -> <<"None">>
         [] a.k = "Object" -> <<"EObject", LP>> \o ToKleisString(a.v) \o <<RP>>
         [] a.k = "Const" -> <<"EConst", LP>> \o ToKleisString(a.v) \o <<RP>>
         [] a.k = "Operation" ->
                <<"EOp", LP>> \o ToKleisString(a.name) \o <<CM, SP, "List", LP>>
                \o Join(each(a.args), <<CM, SP>>)
                \o <<RP, CM, SP, Q, Q, CM, SP, "NoMeta", RP>>
         [] a.k = "Placeholder" ->
                <<"EPlaceholder", LP, "Placeholder", LP>> \o NatToStr(a.id)
                \o <<CM, SP>> \o ToKleisString(a.hint) \o <<RP, RP>>
         [] a.k = "List" ->
                <<"EList", LP, "List", LP>> \o Join(each(a.items), <<CM, SP>>) \o <<RP, RP>>
         [] OTHER -> <<"None">>

\* re.match(r'<ctor>\("([^"]*)"\)', s): the quoted text, or "nomatch"
MatchCtorString(s, ctor) ==
    IF ~StartsWith(s, <<ctor, LP, Q>>) THEN [ok |-> FALSE]
    ELSE LET q == NextQuote(s, 4)
         IN IF q # 0 /\ q < Len(s) /\ s[q + 1] = RP
            THEN [ok |-> TRUE, text |-> Slice(s, 4, q - 1)]
            ELSE [ok |-> FALSE]

\* \s* at i: the position after the white space that starts at i
RECURSIVE SkipSpace(_, _)
SkipSpace(s, i) == IF i >= 1 /\ i <= Len(s) /\ IsSpace(s[i]) THEN SkipSpace(s, i + 1) ELSE i

\* the elements of a finite set of integers in increasing order
Sorted(S) == [k \in 1..Cardinality(S) |-> CHOOSE x \in S : Cardinality({y \in S : y < x}) = k - 1]

RECURSIVE ParseAstExpr(_)

\* _extract_list_args: the text after "List(" is cut at the commas read at
\* depth 0 and at the closing parenthesis; each piece is stripped and parsed,
\* an empty piece or one that parses to None is dropped.  A piece that the
\* end of the text cuts short is never parsed.
ExtractListArgs(s) ==
    LET \* s.find("List("): the position after the first "List(", 0 if there is
        \* none.  The characters "List(" also end the word "EList(".
        opens == {i \in 1..(Len(s) - 1) : s[i] \in {"List", "EList"} /\ s[i + 1] = LP}
        start == IF opens = {} THEN 0 ELSE Least(opens) + 2
        \* `depth` when the scan reads s[i]: the parentheses opened and not yet
        \* closed since `start`
        DepthAt(i) ==
          Cardinality({j \in start..(i - 1) : s[j] = LP})
          - Cardinality({j \in start..(i - 1) : s[j] = RP})
        \* where the scan breaks: the first ")" read at depth 0 (0 when the
        \* scan runs off the end of the text)
        ends == {i \in start..Len(s) : s[i] = RP /\ DepthAt(i) = 0}
        end == IF ends = {} THEN 0 ELSE Least(ends)
        last == IF end = 0 THEN Len(s) ELSE end - 1
        commas == Sorted({i \in start..last : s[i] = CM /\ DepthAt(i) = 0})
        n == Len(commas) + (IF end = 0 THEN 0 ELSE 1)
        from(k) == IF k = 1 THEN start ELSE commas[k - 1] + 1
        to(k) == IF k <= Len(commas) THEN commas[k] - 1 ELSE end - 1
        piece(k) == Strip(Slice(s, from(k), to(k)))
        each == [k \in 1..n |-> IF piece(k) = <<>> THEN NoneAst ELSE ParseAstExpr(piece(k))]
    IN IF start = 0 THEN <<>> ELSE SelectSeq(each, LAMBDA p : p # NoneAst)

\* _parse_ast_expr
ParseAstExpr(s0) ==
    LET s == Strip(s0)
        obj == MatchCtorString(s, "EObject")
        cst == MatchCtorString(s, "EConst")
        \* re.match(r'EOp\("([^"]*)",\s*List\(', s)
        q == NextQuote(s, 4)
        op == IF /\ StartsWith(s, <<"EOp", LP, Q>>) /\ q # 0 /\ q < Len(s) /\ s[q + 1] = CM
                 /\ OccursAt(s, <<"List", LP>>, SkipSpace(s, q + 2))
              THEN [ok |-> TRUE, text |-> Slice(s, 4, q - 1)]
              ELSE [ok |-> FALSE]
    IN IF StartsWith(s, <<"None">>) THEN NoneAst
       ELSE IF StartsWith(s, <<"EObject", LP>>) /\ obj.ok THEN Object(obj.text)
       ELSE IF StartsWith(s, <<"EConst", LP>>) /\ cst.ok THEN Const(cst.text)
       ELSE IF StartsWith(s, <<"EOp", LP>>) /\ op.ok
            THEN Operation(op.text, ExtractListArgs(s))
       ELSE NoneAst

---------------------------------------------------------------------------
(* The codec: a tree is written by _ast_to_kleis and read back by          *)
(* _parse_ast_expr                                                         *)

\* the most nodes of an input tree
MaxNodes == 3

\* the strings of the input trees: plain ones, and ones with the characters
\* that _to_kleis_string escapes or that the scanners look for
ObjectNames == {<<"x">>, <<LP>>, <<RP>>}
ConstValues == {<<"2">>, <<Q>>, <<BS>>, <<NL>>}
OperationNames == {<<"f">>}
PlaceholderIds == {0}
PlaceholderHints == {<<"h">>}

Leaves ==
    {Object(s) : s \in ObjectNames} \cup {Const(s) : s \in ConstValues}
    \cup {Placeholder(i, h) : i \in PlaceholderIds, h \in PlaceholderHints}

RECURSIVE TreesOfSize(_)
RECURSIVE ForestsOfSize(_)
\* the trees with exactly n nodes
TreesOfSize(n) ==
    (IF n = 1 THEN Leaves ELSE {})
    \cup {Operation(nm, f) : nm \in OperationNames, f \in ForestsOfSize(n - 1)}
    \cup {ListNode(f) : f \in ForestsOfSize(n - 1)}
\* the sequences of trees with n nodes in all
ForestsOfSize(n) ==
    IF n = 0 THEN {<<>>}
    ELSE UNION {{<<t>> \o f : t \in TreesOfSize(k), f \in ForestsOfSize(n - k)} : k \in 1..n}

Trees == UNION {TreesOfSize(n) : n \in 1..MaxNodes}

CodecInit ==
    /\ ast \in Trees /\ kleis = <<>> /\ parsed = NoneAst /\ cpc = "tree"
    /\ OthersIdle("codec")

\* kleis = self._ast_to_kleis(ast)
Encode ==
    /\ cpc = "tree"
    /\ kleis' = AstToKleis(ast)
    /\ cpc' = "text"
    /\ UNCHANGED <<ast, parsed, notCodec>>

\* parsed = self._parse_ast_expr(kleis)
Decode ==
    /\ cpc = "text"
    /\ parsed' = ParseAstExpr(kleis)
    /\ cpc' = "back"
    /\ UNCHANGED <<ast, kleis, notCodec>>

CodecNext == Encode \/ Decode

SpecCodec == CodecInit /\ [][CodecNext]_vars

\* C1: for every expression tree t built from the five node kinds, decoding
\* the text that _ast_to_kleis(t) produced with _parse_ast_expr returns a tree
\* structurally equal to t.
C1_DecodeEncodeIsIdentity == cpc = "back" => parsed = ast

---------------------------------------------------------------------------
(* Sections.  A Section is a Python object that several lists may hold, so *)
(* sections live in a heap (a sequence of records, a section's id is its   *)
(* index) and a content list names a subsection by its id.                 *)

Section(level, title, content) == [level |-> level, title |-> title, content |-> content]
TextItem(s) == [t |-> "text", s |-> s]
EqItem(ref) == [t |-> "eq", ref |-> ref]
FigItem(ref) == [t |-> "fig", ref |-> ref]
SecItem(id) == [t |-> "sec", ref |-> id]

\* the greatest element of a non-empty set of integers
Greatest(S) == CHOOSE x \in S : \A y \in S : y <= x

\* a mutation of PopStack: pops the sections at a deeper level only
PopStackDeeperOnly(stack, level) ==
    LET below == {k \in 1..Len(stack) : stack[k][1] <= level}
    IN SubSeq(stack, 1, IF below = {} THEN 0 ELSE Greatest(below))

\* while stack and stack[-1][0] >= section.level: stack.pop()
\* (what is left ends with the topmost entry of a smaller level)
PopStack(stack, level) ==
    LET below == {k \in 1..Len(stack) : stack[k][1] < level}
    IN SubSeq(stack, 1, IF below = {} THEN 0 ELSE Greatest(below))

RECURSIVE BuildLoop(_, _, _, _, _)
\* the for loop of _build_section_hierarchy over flat[i..]; stack holds
\* <<level, id>> pairs, roots the ids of root_sections
BuildLoop(heap, flat, i, stack, roots) ==
    IF i > Len(flat) THEN [heap |-> heap, roots |-> roots]
    ELSE LET id == flat[i]
             popped == PopStack(stack, heap[id].level)
             parent == popped[Len(popped)][2]
         IN IF popped = <<>>
            THEN BuildLoop(heap, flat, i + 1,
                           Append(popped, <<heap[id].level, id>>), Append(roots, id))
            ELSE BuildLoop([heap EXCEPT ![parent].content = Append(@, SecItem(id))],
                           flat, i + 1, Append(popped, <<heap[id].level, id>>), roots)

\* _build_section_hierarchy(flat_sections): the heap after it, and the ids of
\* the list it returns
BuildSectionHierarchy(heap, flat) ==
    IF flat = <<>> THEN [heap |-> heap, roots |-> <<>>]
    ELSE BuildLoop(heap, flat, 1, <<>>, <<>>)

\* the subsections of a section, in content order
SubsectionsOf(heap, id) ==
    LET c == heap[id].content
        at == Sorted({k \in 1..Len(c) : c[k].t = "sec"})
    IN [k \in 1..Len(at) |-> c[at[k]].ref]

RECURSIVE PreOrder(_, _)
RECURSIVE PreOrderAll(_, _)
\* the order in which _section_to_kleis writes a section and the sections
\* below it: the section first, then each subsection with all below it
PreOrder(heap, id) == <<id>> \o PreOrderAll(heap, SubsectionsOf(heap, id))
\* save: for i, section in enumerate(self.sections)
PreOrderAll(heap, ids) ==
    IF ids = <<>> THEN <<>> ELSE PreOrder(heap, Head(ids)) \o PreOrderAll(heap, Tail(ids))

RECURSIVE SectionTree(_, _)
\* a section with the sections below it as one value: level, title and the
\* trees of its subsections in content order
SectionTree(heap, id) ==
    LET subs == SubsectionsOf(heap, id)
    IN [level |-> heap[id].level, title |-> heap[id].title,
        subs |-> [k \in 1..Len(subs) |-> SectionTree(heap, subs[k])]]

SectionForest(heap, roots) == [k \in 1..Len(roots) |-> SectionTree(heap, roots[k])]

---------------------------------------------------------------------------
(* Section hierarchy: a forest of sections is written in the order of      *)
(* _section_to_kleis, read as a flat list and nested again by              *)
(* _build_section_hierarchy                                                *)

\* the most sections of an input forest, and the deepest level
MaxFlat == 4
MaxLevel == 3

SectionTitles == <<"A", "B", "C", "D", "E", "F">>
TitleOf(i) == <<SectionTitles[i]>>

RECURSIVE AncestorsOrSelf(_, _)
\* node j and the nodes above it, for a parent array par (0: no parent)
AncestorsOrSelf(par, j) == IF j = 0 THEN {} ELSE {j} \cup AncestorsOrSelf(par, par[j])

\* the parent arrays of the forests of n sections numbered in pre-order
ParentArrays(n) ==
    {par \in [1..n -> 0..(n - 1)] :
        \A i \in 1..n : par[i] = 0 \/ (i > 1 /\ par[i] \in AncestorsOrSelf(par, i - 1))}

\* the forest of parent array par: section i holds a text if withText[i], then
\* its subsections in order
ForestOf(n, par, lv, withText) ==
    [heap |-> [i \in 1..n |->
                 Section(lv[i], TitleOf(i),
                         (IF withText[i] THEN <<TextItem(<<"t">>)>> ELSE <<>>)
                         \o LET kids == Sorted({c \in 1..n : par[c] = i})
                            IN [k \in 1..Len(kids) |-> SecItem(kids[k])])],
     roots |-> Sorted({i \in 1..n : par[i] = 0})]

HierInputs ==
    UNION {{ForestOf(n, par, lv, [i \in 1..n |-> i % 2 = 1]) :
                par \in ParentArrays(n), lv \in [1..n -> 1..MaxLevel]} : n \in 1..MaxFlat}

HierInit ==
    /\ hforest \in HierInputs /\ hflat = <<>> /\ hbuilt = NoForest /\ hpc = "forest"
    /\ OthersIdle("hier")

\* what load makes of one written section before the hierarchy is built: a
\* new Section with the level, the title and the items that are no sections
FlatCopy(sec) == Section(sec.level, sec.title, SelectSeq(sec.content, LAMBDA it : it.t # "sec"))

\* the sections as save writes them and _extract_sections lists them
Flatten ==
    /\ hpc = "forest"
    /\ LET order == PreOrderAll(hforest.heap, hforest.roots)
       IN hflat' = [k \in 1..Len(order) |-> FlatCopy(hforest.heap[order[k]])]
    /\ hpc' = "flat"
    /\ UNCHANGED <<hforest, hbuilt, notHier>>

\* return self._build_section_hierarchy(flat_sections)
Build ==
    /\ hpc = "flat"
    /\ hbuilt' = BuildSectionHierarchy(hflat, [k \in 1..Len(hflat) |-> k])
    /\ hpc' = "built"
    /\ UNCHANGED <<hforest, hflat, notHier>>

HierNext == Flatten \/ Build

SpecHier == HierInit /\ [][HierNext]_vars

\* the nearest section before flat section i whose level is strictly smaller
\* (0 if there is none)
NearestSmaller(flat, i) ==
    LET before == {j \in 1..(i - 1) : flat[j].level < flat[i].level}
    IN IF before = {} THEN 0 ELSE Greatest(before)

\* the flat sections whose nearest smaller section is p, in order
ChildrenByLevel(flat, p) == Sorted({i \in 1..Len(flat) : NearestSmaller(flat, i) = p})

\* C6: _build_section_hierarchy makes each section the last child of the
\* nearest preceding section whose level is strictly smaller, or a top-level
\* section when no preceding section has a smaller level: the roots are the
\* sections without such a section, in order, and each section's content is
\* what it held followed by its children in order.  For
\* [(1,A),(2,B),(2,C),(1,D)] the result is A with children [B,C] and D with
\* no children.
C6_NearestSmallerLevelIsParent ==
    hpc = "built" =>
        /\ hbuilt.roots = ChildrenByLevel(hflat, 0)
        /\ \A i \in 1..Len(hflat) :
              hbuilt.heap[i].content =
                  hflat[i].content
                  \o [k \in 1..Len(ChildrenByLevel(hflat, i)) |->
                          SecItem(ChildrenByLevel(hflat, i)[k])]
        /\ ([k \in 1..Len(hflat) |-> hflat[k].level] = <<1, 2, 2, 1>> =>
               SectionForest(hbuilt.heap, hbuilt.roots) =
                   << [level |-> 1, title |-> <<"A">>,
                       subs |-> << [level |-> 2, title |-> <<"B">>, subs |-> <<>>],
                                   [level |-> 2, title |-> <<"C">>, subs |-> <<>>] >>],
                      [level |-> 1, title |-> <<"D">>, subs |-> <<>>] >>)

\* the example of C6 has been built, and so has a list whose levels jump
C6_Witness ==
    /\ hpc = "built"
    /\ [k \in 1..Len(hflat) |-> hflat[k].level] = <<1, 2, 2, 1>>
    /\ Len(hbuilt.roots) = 2
    /\ hflat[1].content # <<>>

\* every subsection lies at a strictly deeper level than its parent
ChildrenDeeper(f) ==
    \A p \in 1..Len(f.heap) : \A k \in 1..Len(SubsectionsOf(f.heap, p)) :
        f.heap[SubsectionsOf(f.heap, p)[k]].level > f.heap[p].level

\* no section lies at a deeper level than the sibling just before it (the
\* top-level sections are siblings of each other)
SiblingsNotDeeper(f) ==
    LET ok(ids) == \A k \in 2..Len(ids) : f.heap[ids[k]].level <= f.heap[ids[k - 1]].level
    IN ok(f.roots) /\ \A p \in 1..Len(f.heap) : ok(SubsectionsOf(f.heap, p))

RebuiltSame == SectionForest(hbuilt.heap, hbuilt.roots) = SectionForest(hforest.heap, hforest.roots)

\* C7 as stated: for every section tree in which each child section's level
\* is strictly greater than its parent's level, flattening the tree in
\* pre-order and reconstructing it with _build_section_hierarchy returns the
\* same tree.
C7_AsStated == (hpc = "built" /\ ChildrenDeeper(hforest)) => RebuiltSame

\* C7 amended: for every section forest in which each child section's level
\* is strictly greater than its parent's level and no section's level is
\* greater than the level of the sibling just before it, flattening in
\* pre-order and reconstructing with _build_section_hierarchy returns the
\* same forest.
C7_RebuildOfOrderedLevels ==
    (hpc = "built" /\ ChildrenDeeper(hforest) /\ SiblingsNotDeeper(hforest)) => RebuiltSame

\* a nested forest that meets the conditions of C7 has been rebuilt
C7_Witness ==
    /\ hpc = "built"
    /\ ChildrenDeeper(hforest) /\ SiblingsNotDeeper(hforest)
    /\ Len(hforest.roots) = 2
    /\ Len(SubsectionsOf(hforest.heap, 1)) = 2
    /\ RebuiltSame

---------------------------------------------------------------------------
(* The document.  A Python dict is a sequence of <<key, value>> pairs in    *)
(* insertion order.  Equation and Figure objects are held both by the       *)
(* document's maps and by section contents, so they live in heaps like the  *)
(* sections do.  A metadata value is a record tagged with its Python type.  *)

\* Python's None where a string or a list is expected
None == <<"None">>

\* the keys of a dict
DictKeys(d) == {d[i][1] : i \in 1..Len(d)}
\* d.get(k): the value under k, None when k is no key
DictGet(d, k) ==
    IF k \in DictKeys(d) THEN d[CHOOSE i \in 1..Len(d) : d[i][1] = k][2] ELSE None

\* a mutation of DictSet: the entry is added even when the key is there
DictSetAppends(d, k, v) == Append(d, <<k, v>>)

\* d[k] = v: the value of an existing key is replaced where it stands, a new
\* key is added at the end
DictSet(d, k, v) ==
    IF k \in DictKeys(d)
    THEN [i \in 1..Len(d) |-> IF d[i][1] = k THEN <<k, v>> ELSE d[i]]
    ELSE Append(d, <<k, v>>)

Author(name, email, affiliation, role) ==
    [t |-> "Author", name |-> name, email |-> email, affiliation |-> affiliation, role |-> role]
StrVal(s) == [t |-> "str", v |-> s]
BoolVal(b) == [t |-> "bool", v |-> b]
NumVal(n) == [t |-> "int", v |-> n]
ListVal(items) == [t |-> "list", v |-> items]

Equation(id, label, latex, typst, a, numbered, verified) ==
    [id |-> id, label |-> label, latex |-> latex, typst |-> typst, ast |-> a,
     numbered |-> numbered, verified |-> verified]

Figure(id, label, caption, kleis_code, image_path) ==
    [id |-> id, label |-> label, caption |-> caption, kleis_code |-> kleis_code,
     svg_cache |-> None, typst_fragment |-> None, image_path |-> image_path]

BibEntry(key, entry_type, title, authors, year, journal, volume, pages, publisher, doi, url, note) ==
    [key |-> key, entry_type |-> entry_type, title |-> title, authors |-> authors,
     year |-> year, journal |-> journal, volume |-> volume, pages |-> pages,
     publisher |-> publisher, doi |-> doi, url |-> url, note |-> note]

CrossRef(ref_type, target, text) == [ref_type |-> ref_type, target |-> target, text |-> text]

\* KleisDoc.__init__
NewDoc ==
    [metadata |-> <<>>, template_path |-> None,
     heap |-> <<>>, sections |-> <<>>,
     eqheap |-> <<>>, equations |-> <<>>,
     figheap |-> <<>>, figures |-> <<>>,
     bibliography |-> <<>>, cross_refs |-> <<>>, content_blocks |-> <<>>,
     tables |-> <<>>, algorithms |-> <<>>, theorems |-> <<>>]

\* set_metadata(**{key: value})
set_metadata(d, key, value) == [d EXCEPT !.metadata = DictSet(@, key, value)]

\* [content] if content else []
InitialContent(content) == IF content = <<>> THEN <<>> ELSE <<TextItem(content)>>

\* add_section(title, content, level); the new Section is the last of the heap
add_section(d, title, content, level) ==
    [d EXCEPT !.heap = Append(@, Section(level, title, InitialContent(content))),
              !.sections = Append(@, Len(d.heap) + 1)]

\* add_subsection(parent, title, content)
add_subsection(d, parent, title, content) ==
    [d EXCEPT !.heap = Append([@ EXCEPT ![parent].content = Append(@, SecItem(Len(d.heap) + 1))],
                              Section(d.heap[parent].level + 1, title, InitialContent(content)))]

\* add_text(text, section); section 0 is None
add_text(d, text, section) ==
    LET d1 == IF section = 0 /\ d.sections = <<>> THEN add_section(d, <<"Content">>, <<>>, 1) ELSE d
        sec == IF section # 0 THEN section ELSE d1.sections[Len(d1.sections)]
    IN [d1 EXCEPT !.heap[sec].content = Append(@, TextItem(text))]

\* the section an equation or a figure is appended to: the one given, else
\* the last section of the document, else none (0)
TargetSection(d, section) ==
    IF section # 0 THEN section
    ELSE IF d.sections # <<>> THEN d.sections[Len(d.sections)] ELSE 0

\* add_equation(label, latex, ast, numbered, section)
add_equation(d, label, latex, a, numbered, section) ==
    LET eq == Equation(<<"eq_">> \o NatToStr(Len(d.equations)), label, latex, <<>>, a, numbered, FALSE)
        ref == Len(d.eqheap) + 1
        sec == TargetSection(d, section)
        d1 == [d EXCEPT !.eqheap = Append(@, eq), !.equations = DictSet(@, label, ref)]
    IN IF sec = 0 THEN d1 ELSE [d1 EXCEPT !.heap[sec].content = Append(@, EqItem(ref))]

\* update_equation(label, latex, ast); None leaves a field as it is
update_equation(d, label, latex, a) ==
    IF label \in DictKeys(d.equations)
    THEN LET ref == DictGet(d.equations, label)
         IN [d EXCEPT !.eqheap[ref].latex = IF latex # None THEN latex ELSE @,
                      !.eqheap[ref].ast = IF a # NoneAst THEN a ELSE @]
    ELSE d

\* add_figure(label, caption, kleis_code, image_path, typst_fragment, section)
add_figure(d, label, caption, kleis_code, image_path, typst_fragment, section) ==
    LET fig0 == Figure(<<"fig_">> \o NatToStr(Len(d.figures)), label, caption, kleis_code, image_path)
        fig == IF typst_fragment \notin {None, <<>>}
               THEN [fig0 EXCEPT !.typst_fragment = typst_fragment] ELSE fig0
        ref == Len(d.figheap) + 1
        sec == TargetSection(d, section)
        d1 == [d EXCEPT !.figheap = Append(@, fig), !.figures = DictSet(@, label, ref)]
    IN IF sec = 0 THEN d1 ELSE [d1 EXCEPT !.heap[sec].content = Append(@, FigItem(ref))]

\* set_content_block(name, content)
set_content_block(d, name, content) == [d EXCEPT !.content_blocks = DictSet(@, name, content)]

\* add_table(label, headers, rows, caption, kleis_code)
add_table(d, label, headers, rows, caption, kleis_code) ==
    [d EXCEPT !.tables = DictSet(@, label,
        [label |-> label, headers |-> headers, rows |-> rows, caption |-> caption,
         kleis_code |-> kleis_code])]

\* add_theorem(label, kind, statement, proof, name)
add_theorem(d, label, kind, statement, proof, name) ==
    [d EXCEPT !.theorems = DictSet(@, label,
        [label |-> label, kind |-> kind, statement |-> statement, proof |-> proof,
         name |-> name])]

\* add_algorithm(label, name, pseudocode, caption)
add_algorithm(d, label, name, pseudocode, caption) ==
    [d EXCEPT !.algorithms = DictSet(@, label,
        [label |-> label, name |-> name, pseudocode |-> pseudocode, caption |-> caption])]

\* add_bib_entry(key, entry_type, title, authors, ...)
add_bib_entry(d, entry) == [d EXCEPT !.bibliography = DictSet(@, entry.key, entry)]

\* cite, ref_equation, ref_figure, ref_section, ref_table, ref_theorem: each
\* appends CrossRef(ref_type, target, text) with its own ref_type
add_cross_ref(d, ref_type, target, text) ==
    [d EXCEPT !.cross_refs = Append(@, CrossRef(ref_type, target, text))]

\* validate_cross_refs: the messages in the order of the references.  The
\* if/elif chain has a branch for "bib", "eq", "fig", "tab" and "thm"; a
\* reference of another type adds no message.
validate_cross_refs(d) ==
    LET Error(ref) ==
          IF ref.ref_type = <<"bib">> /\ ref.target \notin DictKeys(d.bibliography)
          THEN <<"Missing bibliography entry: ">> \o ref.target
          ELSE IF ref.ref_type = <<"eq">> /\ ref.target \notin DictKeys(d.equations)
          THEN <<"Missing equation: ">> \o ref.target
          ELSE IF ref.ref_type = <<"fig">> /\ ref.target \notin DictKeys(d.figures)
          THEN <<"Missing figure: ">> \o ref.target
          ELSE IF ref.ref_type = <<"tab">> /\ ref.target \notin DictKeys(d.tables)
          THEN <<"Missing table: ">> \o ref.target
          ELSE IF ref.ref_type = <<"thm">> /\ ref.target \notin DictKeys(d.theorems)
          THEN <<"Missing theorem: ">> \o ref.target
          ELSE <<>>
    IN SelectSeq([i \in 1..Len(d.cross_refs) |-> Error(d.cross_refs[i])],
                 LAMBDA e : e # <<>>)

---------------------------------------------------------------------------
(* save: the text of the .kleis file.  A comment line is one token.        *)

\* metadata values: a list whose first item is an Author
AuthorsVal(items) == [t |-> "authors", v |-> items]

RECURSIVE Cat(_)
\* the concatenation of a sequence of texts
Cat(texts) == IF texts = <<>> THEN <<>> ELSE Head(texts) \o Cat(Tail(texts))

\* lines.append(text): a line of the file with its line end
Ln(text) == text \o <<NL>>
Indent == <<SP, SP, SP, SP>>
DoubleRule == "// ============================================================================"
Rule == "// ----------------------------------------------------------------------------"

\* the three comment lines and the empty line that open a part of the file
Banner(title) == <<Rule, NL, title, NL, Rule, NL, NL>>

\* lines.append(f'    {name} = {value},'), without the comma on the last field
FieldLn(name, value, comma) ==
    Ln(Indent \o <<name, SP, "=", SP>> \o value \o (IF comma THEN <<CM>> ELSE <<>>))

\* str(b).lower()
BoolToKleis(b) == IF b THEN <<"true">> ELSE <<"false">>
\* str(n) for an integer
IntToStr(n) == IF n < 0 THEN <<"-">> \o NatToStr(0 - n) ELSE NatToStr(n)

\* label.replace(":", "_").replace("-", "_")
SafeName(label) == Replace(Replace(label, ":", <<"_">>), "-", <<"_">>)
\* _to_kleis_string(s or "")
ToKleisStringOr(s) == IF s = None THEN ToKleisString(<<>>) ELSE ToKleisString(s)

\* ", ".join(self._to_kleis_string(x) for x in items)
StringList(items) == Join([i \in 1..Len(items) |-> ToKleisString(items[i])], <<CM, SP>>)

SaveHeader ==
    <<DoubleRule, NL, "// KleisDoc - Auto-generated document file", NL, DoubleRule, NL,
      "//", NL, "// This file was generated by KleisDoc Python API.", NL,
      "// It can be loaded back into KleisDoc for continued editing.", NL, "//", NL,
      DoubleRule, NL, NL,
      "import", SP, Q, "examples/documents/kleisdoc_types", ".kleis", Q, NL, NL>>

\* the metadata: one define meta_<safe_key> per entry, whose form follows the
\* type of the value
SaveMetadata(d) ==
    LET \* key.replace("-", "_").replace(":", "_").replace(" ", "_")
        SafeKey(key) == Replace(Replace(Replace(key, "-", <<"_">>), ":", <<"_">>), SP, <<"_">>)
        \* the Author(...) of one line in a list of authors
        AuthorInline(a) ==
          <<"Author", LP, "name", SP, "=", SP>> \o ToKleisString(a.name)
          \o <<CM, SP, "email", SP, "=", SP>> \o ToKleisString(a.email)
          \o <<CM, SP, "affiliation", SP, "=", SP>> \o ToKleisString(a.affiliation)
          \o <<CM, SP, "role", SP, "=", SP>> \o ToKleisString(a.role) \o <<RP>>
        Value(head, value) ==
          CASE value.t = "str" -> Ln(head \o ToKleisString(value.v))
            [] value.t = "Author" ->
                   Ln(head \o <<"Author", LP>>)
                   \o FieldLn("name", ToKleisString(value.name), TRUE)
                   \o FieldLn("email", ToKleisString(value.email), TRUE)
                   \o FieldLn("affiliation", ToKleisString(value.affiliation), TRUE)
                   \o FieldLn("role", ToKleisString(value.role), FALSE)
                   \o Ln(<<RP>>)
            [] value.t = "authors" ->
                   Ln(head \o <<"List", LP>>)
                   \o Cat([i \in 1..Len(value.v) |->
                             Ln(Indent \o AuthorInline(value.v[i])
                                \o (IF i < Len(value.v) THEN <<CM>> ELSE <<>>))])
                   \o Ln(<<RP>>)
            [] value.t = "list" -> Ln(head \o <<"List", LP>> \o StringList(value.v) \o <<RP>>)
            [] value.t = "bool" -> Ln(head \o BoolToKleis(value.v))
            [] value.t = "int" -> Ln(head \o IntToStr(value.v))
        Entry(key, value) ==
          Value(<<"define", SP, "meta_">> \o SafeKey(key) \o <<SP, "=", SP>>, value)
    IN Banner("// Document Metadata")
       \o Cat([i \in 1..Len(d.metadata) |-> Entry(d.metadata[i][1], d.metadata[i][2])])
       \o <<NL>>

\* a part of the file that holds one record per entry of a collection; the
\* part is left out when the collection is empty
SavePart(title, entries) ==
    IF entries = <<>> THEN <<>> ELSE Banner(title) \o Cat(entries)

\* lines.append(f"define {name} = {kind}("), the field lines, ")" and ""
SaveRecord(name, kind, fields) ==
    Ln(<<"define", SP>> \o name \o <<SP, "=", SP, kind, LP>>) \o fields \o <<RP, NL, NL>>

SaveEquations(d) ==
    LET entry(i) ==
          LET eq == d.eqheap[d.equations[i][2]]
          IN SaveRecord(SafeName(d.equations[i][1]), "Equation",
                 FieldLn("id", ToKleisString(eq.id), TRUE)
                 \o FieldLn("label", ToKleisString(eq.label), TRUE)
                 \o FieldLn("latex", ToKleisString(eq.latex), TRUE)
                 \o FieldLn("typst", ToKleisString(eq.typst), TRUE)
                 \o FieldLn("ast", AstToKleis(eq.ast), TRUE)
                 \o FieldLn("numbered", BoolToKleis(eq.numbered), TRUE)
                 \o FieldLn("verified", BoolToKleis(eq.verified), FALSE))
    IN SavePart("// Equations (with EditorNode AST for re-editing)",
                [i \in 1..Len(d.equations) |-> entry(i)])

SaveFigures(d) ==
    LET entry(i) ==
          LET fig == d.figheap[d.figures[i][2]]
              source == IF fig.kleis_code \notin {None, <<>>}
                        THEN <<"Regenerable", LP>> \o ToKleisString(fig.kleis_code)
                             \o <<CM, SP, "List", LP, RP, RP>>
                        ELSE IF fig.image_path \notin {None, <<>>}
                        THEN <<"Imported", LP>> \o ToKleisString(fig.image_path)
                             \o <<CM, SP, Q, Q, RP>>
                        ELSE <<"Static">>
          IN SaveRecord(SafeName(d.figures[i][1]), "Figure",
                 FieldLn("id", ToKleisString(fig.id), TRUE)
                 \o FieldLn("label", ToKleisString(fig.label), TRUE)
                 \o FieldLn("caption", ToKleisString(fig.caption), TRUE)
                 \o FieldLn("source", source, TRUE)
                 \o FieldLn("typst_fragment", ToKleisStringOr(fig.typst_fragment), TRUE)
                 \o FieldLn("svg_cache", ToKleisStringOr(fig.svg_cache), FALSE))
    IN SavePart("// Figures (with Kleis code for regeneration)",
                [i \in 1..Len(d.figures) |-> entry(i)])

\* a content block is a string or a list of strings
SaveContentBlocks(d) ==
    LET entry(i) ==
          LET content == d.content_blocks[i][2]
              head == <<"define", SP, "content_">>
                      \o Replace(Replace(d.content_blocks[i][1], "-", <<"_">>), ":", <<"_">>)
                      \o <<SP, "=", SP>>
          IN Ln(head \o (IF content.t = "str" THEN ToKleisString(content.v)
                         ELSE <<"List", LP>> \o StringList(content.v) \o <<RP>>))
             \o <<NL>>
    IN SavePart("// Content Blocks (format-specific)",
                [i \in 1..Len(d.content_blocks) |-> entry(i)])

SaveTables(d) ==
    LET entry(i) ==
          LET table == d.tables[i][2]
          IN SaveRecord(SafeName(d.tables[i][1]), "Table",
                 FieldLn("label", ToKleisString(table.label), TRUE)
                 \o FieldLn("headers", <<"List", LP>> \o StringList(table.headers) \o <<RP>>, TRUE)
                 \o FieldLn("caption", ToKleisString(table.caption), FALSE))
    IN SavePart("// Tables",
                [i \in 1..Len(d.tables) |-> entry(i)])

SaveTheorems(d) ==
    LET entry(i) ==
          LET thm == d.theorems[i][2]
          IN SaveRecord(SafeName(d.theorems[i][1]), "Theorem",
                 FieldLn("label", ToKleisString(thm.label), TRUE)
                 \o FieldLn("kind", ToKleisString(thm.kind), TRUE)
                 \o FieldLn("statement", ToKleisString(thm.statement), TRUE)
                 \o FieldLn("proof", ToKleisStringOr(thm.proof), TRUE)
                 \o FieldLn("name", ToKleisStringOr(thm.name), FALSE))
    IN SavePart("// Theorems and Proofs",
                [i \in 1..Len(d.theorems) |-> entry(i)])

SaveAlgorithms(d) ==
    LET entry(i) ==
          LET alg == d.algorithms[i][2]
          IN SaveRecord(SafeName(d.algorithms[i][1]), "Algorithm",
                 FieldLn("label", ToKleisString(alg.label), TRUE)
                 \o FieldLn("name", ToKleisString(alg.name), TRUE)
                 \o FieldLn("pseudocode", ToKleisString(alg.pseudocode), TRUE)
                 \o FieldLn("caption", ToKleisString(alg.caption), FALSE))
    IN SavePart("// Algorithms",
                [i \in 1..Len(d.algorithms) |-> entry(i)])

BibFields ==
    <<"key", "entry_type", "title", "authors", "year", "journal", "volume", "pages",
      "publisher", "doi", "url", "note">>

SaveBibliography(d) ==
    LET entry(i) ==
          LET e == d.bibliography[i][2]
          IN SaveRecord(SafeName(<<"bib_">> \o d.bibliography[i][1]), "BibEntry",
                 Cat([f \in 1..Len(BibFields) |->
                        FieldLn(BibFields[f], ToKleisString(e[BibFields[f]]),
                                f < Len(BibFields))]))
    IN SavePart("// Bibliography",
                [i \in 1..Len(d.bibliography) |-> entry(i)])

SaveCrossRefs(d) ==
    LET entry(i) ==
          LET ref == d.cross_refs[i]
          IN SaveRecord(<<"crossref_">> \o NatToStr(i - 1), "CrossRef",
                 FieldLn("ref_type", ToKleisString(ref.ref_type), TRUE)
                 \o FieldLn("target", ToKleisString(ref.target), TRUE)
                 \o FieldLn("text", IF ref.text \notin {None, <<>>}
                                    THEN ToKleisString(ref.text) ELSE <<"None">>, FALSE))
    IN SavePart("// Cross-References",
                [i \in 1..Len(d.cross_refs) |-> entry(i)])

RECURSIVE SectionToKleis(_, _, _)
\* _section_to_kleis(section, var_name): the definition of the section, then
\* those of its subsections; a subsection is named <var_name>_sub<n>
SectionToKleis(d, id, var) ==
    LET c == d.heap[id].content
        \* subsection_counter[0] when item k is reached
        counter(k) == Cardinality({j \in 1..(k - 1) : c[j].t = "sec"})
        subVar(k) == var \o <<"_sub">> \o NatToStr(counter(k))
        item(k) ==
            CASE c[k].t = "text" -> <<"Text", LP>> \o ToKleisString(c[k].s) \o <<RP>>
              [] c[k].t = "eq" ->
                    <<"EqRef", LP>> \o ToKleisString(d.eqheap[c[k].ref].label) \o <<RP>>
              [] c[k].t = "fig" ->
                    <<"FigRef", LP>> \o ToKleisString(d.figheap[c[k].ref].label) \o <<RP>>
              [] c[k].t = "sec" -> <<"SectionRef", LP>> \o ToKleisString(subVar(k)) \o <<RP>>
        subs == Sorted({k \in 1..Len(c) : c[k].t = "sec"})
    IN Ln(<<"define", SP>> \o var \o <<SP, "=", SP, "Section", LP>>)
       \o FieldLn("level", NatToStr(d.heap[id].level), TRUE)
       \o FieldLn("title", ToKleisString(d.heap[id].title), TRUE)
       \o Indent \o <<"content", SP, "=", SP, "List", LP>>
       \o Join([k \in 1..Len(c) |-> item(k)], <<CM, SP>>) \o <<RP, NL, RP>>
       \o Cat([n \in 1..Len(subs) |->
                 <<NL, NL>> \o SectionToKleis(d, c[subs[n]].ref, subVar(subs[n]))])

\* the part of the file that defines the sections: the top-level sections
\* in their order, as section_0, section_1, ...
SaveSections_Reversed(d) ==
    LET entry(i) ==
          SectionToKleis(d, d.sections[Len(d.sections) + 1 - i], <<"section_">> \o NatToStr(i - 1))
          \o <<NL, NL>>
    IN SavePart("// Document Structure",
                [i \in 1..Len(d.sections) |-> entry(i)])
SaveSections(d) ==
    LET entry(i) ==
          SectionToKleis(d, d.sections[i], <<"section_">> \o NatToStr(i - 1)) \o <<NL, NL>>
    IN SavePart("// Document Structure",
                [i \in 1..Len(d.sections) |-> entry(i)])

SaveAssembly(d) ==
    LET names(dict) == Join([i \in 1..Len(dict) |-> SafeName(dict[i][1])], <<CM, SP>>)
        secs == Join([i \in 1..Len(d.sections) |-> <<"section_">> \o NatToStr(i - 1)], <<CM, SP>>)
    IN Banner("// Document Assembly")
       \o Ln(<<"define", SP, "document", SP, "=", SP, "KleisDoc", LP>>)
       \o FieldLn("metadata", <<"doc_metadata">>, TRUE)
       \o FieldLn("equations", <<"List", LP>> \o names(d.equations) \o <<RP>>, TRUE)
       \o FieldLn("figures", <<"List", LP>> \o names(d.figures) \o <<RP>>, TRUE)
       \o FieldLn("sections", <<"List", LP>> \o secs \o <<RP>>, FALSE)
       \o Ln(<<RP>>)

\* save(path): the text written to the file; the import of the template is
\* written `if self.template_path:`
SaveText(d) ==
    SaveHeader
    \o (IF d.template_path \in {None, <<>>} THEN <<>>
        ELSE Banner("// Template") \o Ln(<<"import", SP>> \o ToKleisString(d.template_path))
             \o <<NL>>)
    \o SaveMetadata(d) \o SaveEquations(d) \o SaveFigures(d)
    \o SaveContentBlocks(d) \o SaveTables(d) \o SaveTheorems(d) \o SaveAlgorithms(d)
    \o SaveBibliography(d) \o SaveCrossRefs(d) \o SaveSections(d) \o SaveAssembly(d)

---------------------------------------------------------------------------
(* load: the regular expressions of the _extract_* methods, read token by  *)
(* token.  A match is a record with ok = TRUE, its first and last position *)
(* (from, to) and what its groups captured; NoMatch has ok = FALSE.         *)

NoMatch == [ok |-> FALSE]

\* \w: the tokens made of letters, digits and underscores only; a comment
\* line that save writes is one token
IsWord(c) ==
    c \notin {Q, BS, NL, SP, LP, RP, CM, "=", ".", ":", "-", "/", ";", ".kleis", "",
              "examples/documents/kleisdoc_types",
              DoubleRule, Rule, "//", "// KleisDoc - Auto-generated document file",
              "// This file was generated by KleisDoc Python API.",
              "// It can be loaded back into KleisDoc for continued editing.",
              "// Template", "// Document Metadata",
              "// Equations (with EditorNode AST for re-editing)",
              "// Figures (with Kleis code for regeneration)",
              "// Content Blocks (format-specific)",
              "// Tables", "// Theorems and Proofs", "// Algorithms", "// Bibliography",
              "// Cross-References", "// Document Structure", "// Document Assembly"}
\* \d
IsDigit(c) == c \in {"0", "1", "2", "3", "4", "5", "6", "7", "8", "9"}

\* s[i], and the empty token beyond the ends of s
At(s, i) == IF i >= 1 /\ i <= Len(s) THEN s[i] ELSE ""

\* the position after the longest run of tokens of a class of the patterns,
\* "\\w" or "\\d", that starts at i
RunEnd(s, i, class) ==
    Least({j \in i..(Len(s) + 1) :
              ~(IF class = "\\d" THEN IsDigit(At(s, j)) ELSE IsWord(At(s, j)))})

\* int(digits)
RECURSIVE StrToNat(_)
StrToNat(ds) ==
    IF ds = <<>> THEN 0
    ELSE 10 * StrToNat(SubSeq(ds, 1, Len(ds) - 1))
         + (CHOOSE n \in 0..9 : NatToStr(n) = <<ds[Len(ds)]>>)

\* "([^"]*)" at i: the text between the quote at i and the next quote, which
\* is at q
QuotedAt(s, i) ==
    LET To(q) == IF At(s, i) = Q /\ q # 0
                 THEN [ok |-> TRUE, from |-> i, to |-> q, v |-> Slice(s, i + 1, q - 1)]
                 ELSE NoMatch
    IN To(NextQuote(s, i + 1))

\* <name>\s*=\s* at i: the position after it, 0 when it does not match
AssignAt(s, i, name) ==
    LET j == SkipSpace(s, i + 1)
    IN IF At(s, i) = name /\ At(s, j) = "=" THEN SkipSpace(s, j + 1) ELSE 0

\* re.search: of the matches ms[i] of a pattern at the positions i where it
\* can start, the first one
FirstMatch(ms) ==
    LET hits == {i \in DOMAIN ms : ms[i].ok}
    IN IF hits = {} THEN NoMatch ELSE ms[Least(hits)]

\* the positions of token w in s
Positions(s, w) == {i \in 1..Len(s) : s[i] = w}

\* re.search(r'<name>\s*=\s*"([^"]*)"', body)
FieldString(body, name) ==
    FirstMatch([i \in Positions(body, name) |-> QuotedAt(body, AssignAt(body, i, name))])

\* re.search(r'<name>\s*=\s*(true|false)', body)
FieldBool(body, name) ==
    LET BoolAt(j) == IF At(body, j) \in {"true", "false"}
                     THEN [ok |-> TRUE, from |-> j, to |-> j, v |-> body[j] = "true"]
                     ELSE NoMatch
    IN FirstMatch([i \in Positions(body, name) |-> BoolAt(AssignAt(body, i, name))])

\* match.group(1) if match else default
OrElse(m, default) == IF m.ok THEN m.v ELSE default

\* re.findall(r'"([^"]*)"', text): the texts between the 1st and the 2nd
\* quote, the 3rd and the 4th, ...
FindAllQuoted(text) ==
    LET qs == Sorted(Positions(text, Q))
    IN [k \in 1..(Len(qs) \div 2) |-> Slice(text, qs[2 * k - 1] + 1, qs[2 * k] - 1)]

RECURSIVE NonOverlapping(_, _)
\* of the matches in the order of their starts, those that begin after the
\* end of the match kept before them
NonOverlapping(ms, after) ==
    IF ms = <<>> THEN <<>>
    ELSE IF Head(ms).from > after
         THEN <<Head(ms)>> \o NonOverlapping(Tail(ms), Head(ms).to)
         ELSE NonOverlapping(Tail(ms), after)

\* re.finditer: of the matches ms[i] of a pattern at the positions i where it
\* can start, those that a scan from left to right finds
FindIter(ms) ==
    LET hits == Sorted({i \in DOMAIN ms : ms[i].ok})
    IN NonOverlapping([k \in 1..Len(hits) |-> ms[hits[k]]], 0)

\* m.group(1) of each match
Groups(ms) == [k \in 1..Len(ms) |-> ms[k].v]

\* define\s+<prefix>(<class>+)\s*=\s* at i: the name captured and the position
\* after the match; prefix "" stands for no prefix.  The white space after
\* define ends at a, the name starts at b and ends before e.
DefineHead(s, i, prefix, class) ==
    LET Name(a, b, e) ==
          IF /\ At(s, i) = "define" /\ a > i + 1
             /\ (prefix = "" \/ At(s, a) = prefix)
             /\ e > b /\ At(s, SkipSpace(s, e)) = "="
          THEN [ok |-> TRUE, name |-> Slice(s, b, e - 1), next |-> SkipSpace(s, SkipSpace(s, e) + 1)]
          ELSE NoMatch
        From(a, b) == Name(a, b, RunEnd(s, b, class))
        After(a) == From(a, IF prefix = "" THEN a ELSE a + 1)
    IN After(SkipSpace(s, i + 1))

\* the match of the head of a define at every word define of s
DefineHeads(s, prefix) ==
    [i \in Positions(s, "define") |-> DefineHead(s, i, prefix, "\\w")]

\* the records of one kind, in the order of the file:
\* re.finditer(r'define\s+<prefix>(<class>+)\s*=\s*<kind>\((.*?)\n\)', s, re.DOTALL);
\* after the head h of a define, the body runs to the first line end that a
\* ")" follows
Records(s, prefix, class, kind) ==
    LET Body(i, h) ==
          LET ends == {j \in (h.next + 2)..(Len(s) - 1) : s[j] = NL /\ s[j + 1] = RP}
          IN IF h.ok /\ At(s, h.next) = kind /\ At(s, h.next + 1) = LP /\ ends # {}
             THEN [ok |-> TRUE, from |-> i, to |-> Least(ends) + 1, name |-> h.name,
                   body |-> Slice(s, h.next + 2, Least(ends) - 1)]
             ELSE NoMatch
    IN FindIter([i \in Positions(s, "define") |-> Body(i, DefineHead(s, i, prefix, class))])

\* (?:,\s*<name>\s*=\s*"([^"]*)")? at i: a group that matched captures its
\* text and ends after it; one that did not captures None and moves nowhere
OptionalField(s, i, name) ==
    LET Group(q) == IF q.ok THEN [v |-> q.v, next |-> q.to + 1] ELSE [v |-> None, next |-> i]
    IN Group(IF At(s, i) = CM THEN QuotedAt(s, AssignAt(s, SkipSpace(s, i + 1), name))
             ELSE NoMatch)

\* x or default, for a captured group x
\* Author\(\s*name\s*=\s*"([^"]*)"(?:,\s*email\s*=\s*"([^"]*)")?
\* (?:,\s*affiliation\s*=\s*"([^"]*)")?(?:,\s*role\s*=\s*"([^"]*)")?\s*\) at i,
\* and the Author made of its groups
AuthorAt(s, i) ==
    LET \* x or default, for a captured group x
        GroupOr(x, default) == IF x \in {None, <<>>} THEN default ELSE x
        Close(name, email, affiliation, role) ==
          IF At(s, SkipSpace(s, role.next)) = RP
          THEN [ok |-> TRUE, from |-> i, to |-> SkipSpace(s, role.next),
                v |-> Author(GroupOr(name.v, <<>>), GroupOr(email.v, <<>>),
                             GroupOr(affiliation.v, <<>>), GroupOr(role.v, <<"primary">>))]
          ELSE NoMatch
        Role(name, email, affiliation) ==
          Close(name, email, affiliation, OptionalField(s, affiliation.next, "role"))
        Affiliation(name, email) ==
          Role(name, email, OptionalField(s, email.next, "affiliation"))
        Email(name) ==
          IF name.ok THEN Affiliation(name, OptionalField(s, name.to + 1, "email"))
          ELSE NoMatch
    IN Email(IF At(s, i) = "Author" /\ At(s, i + 1) = LP
             THEN QuotedAt(s, AssignAt(s, SkipSpace(s, i + 2), "name"))
             ELSE NoMatch)

\* the position of the first ")" of s at or after i, 0 if there is none
NextClose(s, i) ==
    LET cs == {j \in i..Len(s) : s[j] = RP}
    IN IF cs = {} THEN 0 ELSE Least(cs)

RECURSIVE AuthorUnits(_, _, _)
\* ((?:[^)]*Author[^)]*\)[,\s]*)+)\) from position i, n units being matched:
\* the position of the closing ")", 0 when there is no match.  A unit is a
\* stretch without ")" that holds the word Author, and the ")" after it,
\* which is at c.
AuthorUnits(s, i, n) ==
    LET Unit(c) ==
          IF c = 0 THEN 0
          ELSE IF \E k \in i..(c - 1) : s[k] = "Author" THEN AuthorUnits(s, c + 1, n + 1)
          ELSE IF n >= 1 /\ \A k \in i..(c - 1) : s[k] = CM \/ IsSpace(s[k]) THEN c
          ELSE 0
    IN Unit(NextClose(s, i))

RECURSIVE SetEach(_, _, _)
\* metadata[key] = value for each match in turn; when `fresh`, only
\* `if key not in metadata`; a match with skip = TRUE assigns nothing
SetEach(dict, ms, fresh) ==
    IF ms = <<>> THEN dict
    ELSE SetEach(IF Head(ms).skip \/ (fresh /\ Head(ms).key \in DictKeys(dict)) THEN dict
                 ELSE DictSet(dict, Head(ms).key, Head(ms).v),
                 Tail(ms), fresh)

\* _extract_metadata: the passes over the defines, whose heads are h, for
\* single authors, lists of authors, then strings, lists, booleans and
\* numbers under the keys not yet set; and the path of the template.  Each
\* pattern is matched at the define at i, whose head is h.
ExtractMetadata(s) ==
    LET Entry(i, h, m, v, skip) ==
          IF m.ok THEN [ok |-> TRUE, from |-> i, to |-> m.to, key |-> h.name, v |-> v,
                        skip |-> skip]
          ELSE NoMatch
        \* define\s+meta_(\w+)\s*=\s*Author\(...\)
        OfAuthor(i, h, m) == Entry(i, h, m, m.v, FALSE)
        AuthorEntry(i, h) == OfAuthor(i, h, IF h.ok THEN AuthorAt(s, h.next) ELSE NoMatch)
        \* define\s+meta_(\w+)\s*=\s*List\(((?:[^)]*Author[^)]*\)[,\s]*)+)\): the
        \* list is closed at `close`, and the Authors are those found in the
        \* text of the list; `if authors:` skips an empty list
        OfAuthors(i, h, authors, close) ==
          [ok |-> TRUE, from |-> i, to |-> close, key |-> h.name, v |-> AuthorsVal(authors),
           skip |-> authors = <<>>]
        AuthorsIn(i, h, list_content, close) ==
          OfAuthors(i, h, Groups(FindIter([k \in Positions(list_content, "Author") |->
                                             AuthorAt(list_content, k)])), close)
        AuthorsTo(i, h, close) ==
          IF close # 0 THEN AuthorsIn(i, h, Slice(s, h.next + 2, close - 1), close)
          ELSE NoMatch
        AuthorsEntry(i, h) ==
          AuthorsTo(i, h, IF h.ok /\ At(s, h.next) = "List" /\ At(s, h.next + 1) = LP
                          THEN AuthorUnits(s, h.next + 2, 0) ELSE 0)
        \* define\s+meta_(\w+)\s*=\s*"([^"]*)"
        OfString(i, h, q) == Entry(i, h, q, StrVal(q.v), FALSE)
        StringEntry(i, h) == OfString(i, h, IF h.ok THEN QuotedAt(s, h.next) ELSE NoMatch)
        \* define\s+meta_(\w+)\s*=\s*List\(([^)]*)\), and the strings found in
        \* the text of the list; a list with Author( in it, and one without
        \* strings, are skipped
        OfList(i, h, list_content, close) ==
          [ok |-> TRUE, from |-> i, to |-> close, key |-> h.name,
           v |-> ListVal(FindAllQuoted(list_content)),
           skip |-> \/ \E k \in 1..(Len(list_content) - 1) :
                          list_content[k] = "Author" /\ list_content[k + 1] = LP
                    \/ FindAllQuoted(list_content) = <<>>]
        ListTo(i, h, close) ==
          IF close # 0 THEN OfList(i, h, Slice(s, h.next + 2, close - 1), close) ELSE NoMatch
        ListEntry(i, h) ==
          ListTo(i, h, IF h.ok /\ At(s, h.next) = "List" /\ At(s, h.next + 1) = LP
                       THEN NextClose(s, h.next + 2) ELSE 0)
        \* define\s+meta_(\w+)\s*=\s*(true|false)
        BoolEntry(i, h) ==
          IF h.ok /\ At(s, h.next) \in {"true", "false"}
          THEN [ok |-> TRUE, from |-> i, to |-> h.next, key |-> h.name,
                v |-> BoolVal(s[h.next] = "true"), skip |-> FALSE]
          ELSE NoMatch
        \* define\s+meta_(\w+)\s*=\s*(\d+(?:\.\d+)?)\s*$ with MULTILINE: the
        \* digits end before e, and the white space after them, which ends
        \* before w, reaches a line end or the end of the text.  The numbers
        \* of the model are whole numbers, which save writes without a
        \* fraction.
        NumberLine(i, h, e, w) ==
          IF e > h.next /\ (w = Len(s) + 1 \/ \E p \in e..(w - 1) : s[p] = NL)
          THEN [ok |-> TRUE, from |-> i, to |-> w - 1, key |-> h.name,
                v |-> NumVal(StrToNat(Slice(s, h.next, e - 1))), skip |-> FALSE]
          ELSE NoMatch
        NumberTo(i, h, e) == NumberLine(i, h, e, SkipSpace(s, e))
        NumberEntry(i, h) == IF h.ok THEN NumberTo(i, h, RunEnd(s, h.next, "\\d")) ELSE NoMatch
        \* re.search(r'import\s+"([^"]+\.kleis)"', content): the white space
        \* after import ends at j
        Path(q) == IF q.ok /\ Len(q.v) >= 2 /\ q.v[Len(q.v)] = ".kleis" THEN q ELSE NoMatch
        ImportAt(i, j) == IF j > i + 1 THEN Path(QuotedAt(s, j)) ELSE NoMatch
        TemplateImport ==
          FirstMatch([i \in Positions(s, "import") |-> ImportAt(i, SkipSpace(s, i + 1))])
        Entries(h) ==
          SetEach(SetEach(SetEach(SetEach(SetEach(SetEach(<<>>,
              FindIter([i \in DOMAIN h |-> AuthorEntry(i, h[i])]), FALSE),
              FindIter([i \in DOMAIN h |-> AuthorsEntry(i, h[i])]), FALSE),
              FindIter([i \in DOMAIN h |-> StringEntry(i, h[i])]), TRUE),
              FindIter([i \in DOMAIN h |-> ListEntry(i, h[i])]), TRUE),
              FindIter([i \in DOMAIN h |-> BoolEntry(i, h[i])]), TRUE),
              FindIter([i \in DOMAIN h |-> NumberEntry(i, h[i])]), TRUE)
        WithTemplate(metadata, template) ==
          IF template.ok THEN DictSet(metadata, <<"_template_path">>, StrVal(template.v))
          ELSE metadata
    IN WithTemplate(Entries(DefineHeads(s, "meta_")), TemplateImport)

\* whether the words `words` stand side by side somewhere in text
Contains(text, words) == \E i \in 1..Len(text) : OccursAt(text, words, i)

\* _parse_kleis_ast(eq_body): what follows the first "ast = " is parsed
ParseKleisAst(body) ==
    LET at == {i \in 1..Len(body) : OccursAt(body, <<"ast", SP, "=", SP>>, i)}
    IN IF at = {} THEN NoneAst ELSE ParseAstExpr(Slice(body, Least(at) + 4, Len(body)))

RECURSIVE SetAll(_, _)
\* d[key] = value for each <<key, value>> in turn
SetAll(dict, entries) ==
    IF entries = <<>> THEN dict
    ELSE SetAll(DictSet(dict, Head(entries)[1], Head(entries)[2]), Tail(entries))

\* of the records, those that have a <field> = "...", in their order
WithField(records, field) ==
    SelectSeq(records, LAMBDA r : FieldString(r.body, field).ok)

\* d[label] = value for the records that have a <field>, the values being
\* those of the records in their order
Labelled(rs, field, values) ==
    SetAll(<<>>, [k \in 1..Len(rs) |-> <<FieldString(rs[k].body, field).v, values[k]>>])

\* _extract_equations: the map from label to Equation
ExtractEquations(s) ==
    LET \* re.search(r'ast\s*=\s*(EOp\(.*?\)|EObject\(.*?\)|EConst\(.*?\)|None)', eq_body)
        \* at the value that starts at j; .*? stays on the line
        AstAt(body, j) ==
          \/ At(body, j) = "None"
          \/ /\ At(body, j) \in {"EOp", "EObject", "EConst"}
             /\ At(body, j + 1) = LP
             /\ \E p \in (j + 2)..Len(body) :
                   body[p] = RP /\ \A r \in (j + 2)..(p - 1) : body[r] # NL
        AstFieldMatches(body) ==
          \E i \in Positions(body, "ast") : AstAt(body, AssignAt(body, i, "ast"))
        Of(body) ==
          Equation(OrElse(FieldString(body, "id"), <<>>),
                   FieldString(body, "label").v,
                   OrElse(FieldString(body, "latex"), <<>>),
                   OrElse(FieldString(body, "typst"), <<>>),
                   IF AstFieldMatches(body) THEN ParseKleisAst(body) ELSE NoneAst,
                   OrElse(FieldBool(body, "numbered"), TRUE),
                   OrElse(FieldBool(body, "verified"), FALSE))
        All(rs) == Labelled(rs, "label", [k \in 1..Len(rs) |-> Of(rs[k].body)])
    IN All(WithField(Records(s, "", "\\w", "Equation"), "label"))

\* _extract_figures: the map from label to Figure
ExtractFigures(s) ==
    LET \* re.search(r'<ctor>\("([^"]*)"', body)
        CtorString(body, ctor) ==
          FirstMatch([i \in Positions(body, ctor) |->
                        IF At(body, i + 1) = LP THEN QuotedAt(body, i + 2) ELSE NoMatch])
        Of(body) ==
          Figure(OrElse(FieldString(body, "id"), <<>>),
                 FieldString(body, "label").v,
                 OrElse(FieldString(body, "caption"), <<>>),
                 IF Contains(body, <<"Regenerable", LP>>)
                 THEN OrElse(CtorString(body, "Regenerable"), None) ELSE None,
                 IF ~Contains(body, <<"Regenerable", LP>>) /\ Contains(body, <<"Imported", LP>>)
                 THEN OrElse(CtorString(body, "Imported"), None) ELSE None)
        All(rs) == Labelled(rs, "label", [k \in 1..Len(rs) |-> Of(rs[k].body)])
    IN All(WithField(Records(s, "", "\\w", "Figure"), "label"))

\* List\((.*?)\) at i: the text up to the first ")" of the line, which is
\* at `close`
ListOnLine(s, i) ==
    LET To(close) ==
          IF At(s, i) = "List" /\ At(s, i + 1) = LP /\ close # 0
             /\ \A p \in (i + 2)..(close - 1) : s[p] # NL
          THEN [ok |-> TRUE, from |-> i, to |-> close, v |-> Slice(s, i + 2, close - 1)]
          ELSE NoMatch
    IN To(NextClose(s, i + 2))

\* _extract_content_blocks: the passes over the defines, whose heads are h,
\* for define\s+content_(\w+)\s*=\s*"([^"]*)" and then for
\* define\s+content_(\w+)\s*=\s*List\((.*?)\)
ExtractContentBlocks(s) ==
    LET Entry(i, h, m, v) ==
          IF m.ok THEN [ok |-> TRUE, from |-> i, to |-> m.to, key |-> h.name, v |-> v]
          ELSE NoMatch
        OfString(i, h, q) == Entry(i, h, q, StrVal(q.v))
        OfList(i, h, l) == Entry(i, h, l, ListVal(FindAllQuoted(l.v)))
        StringAt(i, h) == OfString(i, h, IF h.ok THEN QuotedAt(s, h.next) ELSE NoMatch)
        ListAt(i, h) == OfList(i, h, IF h.ok THEN ListOnLine(s, h.next) ELSE NoMatch)
        Set(blocks, ms) == SetAll(blocks, [k \in 1..Len(ms) |-> <<ms[k].key, ms[k].v>>])
        Entries(h) ==
          Set(Set(<<>>, FindIter([i \in DOMAIN h |-> StringAt(i, h[i])])),
              FindIter([i \in DOMAIN h |-> ListAt(i, h[i])]))
    IN Entries(DefineHeads(s, "content_"))

\* _extract_tables; the headers are
\* re.findall(r'"([^"]*)"', headers_match.group(1)) if headers_match else []
\* for re.search(r'headers\s*=\s*List\((.*?)\)', table_body)
ExtractTables(s) ==
    LET Headers(m) == IF m.ok THEN FindAllQuoted(m.v) ELSE <<>>
        Of(body) ==
          [label |-> FieldString(body, "label").v,
           headers |-> Headers(FirstMatch([i \in Positions(body, "headers") |->
                                  ListOnLine(body, AssignAt(body, i, "headers"))])),
           rows |-> <<>>,
           caption |-> OrElse(FieldString(body, "caption"), <<>>)]
        All(rs) == Labelled(rs, "label", [k \in 1..Len(rs) |-> Of(rs[k].body)])
    IN All(WithField(Records(s, "", "\\w", "Table"), "label"))

\* _extract_theorems
ExtractTheorems(s) ==
    LET Of(body) ==
          [label |-> FieldString(body, "label").v,
           kind |-> OrElse(FieldString(body, "kind"), <<"theorem">>),
           statement |-> OrElse(FieldString(body, "statement"), <<>>),
           proof |-> OrElse(FieldString(body, "proof"), None),
           name |-> OrElse(FieldString(body, "name"), None)]
        All(rs) == Labelled(rs, "label", [k \in 1..Len(rs) |-> Of(rs[k].body)])
    IN All(WithField(Records(s, "", "\\w", "Theorem"), "label"))

\* _extract_algorithms
ExtractAlgorithms(s) ==
    LET Of(body) ==
          [label |-> FieldString(body, "label").v,
           name |-> OrElse(FieldString(body, "name"), <<>>),
           pseudocode |-> OrElse(FieldString(body, "pseudocode"), <<>>),
           caption |-> OrElse(FieldString(body, "caption"), <<>>)]
        All(rs) == Labelled(rs, "label", [k \in 1..Len(rs) |-> Of(rs[k].body)])
    IN All(WithField(Records(s, "", "\\w", "Algorithm"), "label"))

\* _extract_bibliography
ExtractBibliography(s) ==
    LET Of(body) ==
          [f \in {BibFields[k] : k \in 1..Len(BibFields)} |->
              OrElse(FieldString(body, f), IF f = "entry_type" THEN <<"article">> ELSE <<>>)]
        All(rs) == Labelled(rs, "key", [k \in 1..Len(rs) |-> Of(rs[k].body)])
    IN All(WithField(Records(s, "bib_", "\\w", "BibEntry"), "key"))

\* _extract_cross_refs: refs.append(CrossRef(...)) for the records that have
\* a ref_type and a target
ExtractCrossRefs(s) ==
    LET All(rs) ==
          [k \in 1..Len(rs) |->
              CrossRef(FieldString(rs[k].body, "ref_type").v,
                       FieldString(rs[k].body, "target").v,
                       OrElse(FieldString(rs[k].body, "text"), None))]
    IN All(WithField(WithField(Records(s, "crossref_", "\\d", "CrossRef"), "ref_type"),
                     "target"))

\* [m.group(1) for m in re.finditer(r'<ctor>\("([^"]*)"\)', text)]
CtorStrings(text, ctor) ==
    LET Closed(i, q) ==
          IF At(text, i) = ctor /\ At(text, i + 1) = LP /\ q.ok /\ At(text, q.to + 1) = RP
          THEN [ok |-> TRUE, from |-> i, to |-> q.to + 1, v |-> q.v]
          ELSE NoMatch
    IN Groups(FindIter([i \in Positions(text, ctor) |-> Closed(i, QuotedAt(text, i + 2))]))

\* _extract_sections(content, equations, figures): the heap of the sections
\* read and the ids of the top-level ones.  In the content of a section the
\* texts come first, then the equations, then the figures whose labels are
\* known.
ExtractSections(s, equations, figures) ==
    LET \* re.search(r'level\s*=\s*(\d+)', sec_body): the digits start at j and
        \* end before e
        DigitsTo(body, j, e) ==
          IF j # 0 /\ e > j
          THEN [ok |-> TRUE, from |-> j, to |-> e - 1, v |-> StrToNat(Slice(body, j, e - 1))]
          ELSE NoMatch
        DigitsAt(body, j) == DigitsTo(body, j, RunEnd(body, j, "\\d"))
        LevelField(body) ==
          FirstMatch([i \in Positions(body, "level") |->
                        DigitsAt(body, AssignAt(body, i, "level"))])
        \* re.search(r'content\s*=\s*List\((.*)\)', sec_body, re.DOTALL): the text
        \* from the first content = List( to the last ")" of the body
        ListAt(body, j) ==
          LET closes == {p \in (j + 2)..Len(body) : body[p] = RP}
          IN IF j # 0 /\ At(body, j) = "List" /\ At(body, j + 1) = LP /\ closes # {}
             THEN [ok |-> TRUE, from |-> j, to |-> Greatest(closes),
                   v |-> Slice(body, j + 2, Greatest(closes) - 1)]
             ELSE NoMatch
        ContentField(body) ==
          FirstMatch([i \in Positions(body, "content") |->
                        ListAt(body, AssignAt(body, i, "content"))])
        Known(labels, dict) == SelectSeq(labels, LAMBDA l : l \in DictKeys(dict))
        Texts(texts) == [k \in 1..Len(texts) |-> TextItem(texts[k])]
        Eqs(labels) == [k \in 1..Len(labels) |-> EqItem(DictGet(equations, labels[k]))]
        Figs(labels) == [k \in 1..Len(labels) |-> FigItem(DictGet(figures, labels[k]))]
        Content(content) ==
          IF content.ok
          THEN Texts(CtorStrings(content.v, "Text"))
               \o Eqs(Known(CtorStrings(content.v, "EqRef"), equations))
               \o Figs(Known(CtorStrings(content.v, "FigRef"), figures))
          ELSE <<>>
        FlatSection(body) ==
          Section(OrElse(LevelField(body), 1),
                  OrElse(FieldString(body, "title"), <<>>),
                  Content(ContentField(body)))
        Flat(rs) == [k \in 1..Len(rs) |-> FlatSection(rs[k].body)]
        Hierarchy(flat) == BuildSectionHierarchy(flat, [k \in 1..Len(flat) |-> k])
    IN Hierarchy(Flat(Records(s, "section_", "\\w", "Section")))

\* load(path) for a file with the text s
Load(s) ==
    LET \* a map from label to object as a heap of the objects and a map from
        \* label to the place in the heap
        Objects(dict) == [k \in 1..Len(dict) |-> dict[k][2]]
        Refs(dict) == [k \in 1..Len(dict) |-> <<dict[k][1], k>>]
        Doc(metadata, equations, figures, sections) ==
          [\* doc.metadata.pop("_template_path")
           metadata |-> SelectSeq(metadata, LAMBDA e : e[1] # <<"_template_path">>),
           template_path |-> IF <<"_template_path">> \in DictKeys(metadata)
                             THEN DictGet(metadata, <<"_template_path">>).v ELSE None,
           heap |-> sections.heap, sections |-> sections.roots,
           eqheap |-> Objects(equations), equations |-> Refs(equations),
           figheap |-> Objects(figures), figures |-> Refs(figures),
           bibliography |-> ExtractBibliography(s),
           cross_refs |-> ExtractCrossRefs(s),
           content_blocks |-> ExtractContentBlocks(s),
           tables |-> ExtractTables(s),
           algorithms |-> ExtractAlgorithms(s),
           theorems |-> ExtractTheorems(s)]
        Sections(metadata, equations, figures) ==
          Doc(metadata, equations, figures, ExtractSections(s, Refs(equations), Refs(figures)))
    IN Sections(ExtractMetadata(s), ExtractEquations(s), ExtractFigures(s))

---------------------------------------------------------------------------
(* A document as a value: what a reader of the document sees, without the  *)
(* places of the objects in the heaps                                      *)

RECURSIVE ContentTree(_, _)
\* a section with its content items in order, an equation or a figure by its
\* fields, a subsection by its own tree
ContentTree(d, id) ==
    LET c == d.heap[id].content
    IN [level |-> d.heap[id].level, title |-> d.heap[id].title,
        content |-> [k \in 1..Len(c) |->
            CASE c[k].t = "text" -> [t |-> "text", v |-> c[k].s]
              [] c[k].t = "eq" -> [t |-> "eq", v |-> d.eqheap[c[k].ref]]
              [] c[k].t = "fig" -> [t |-> "fig", v |-> d.figheap[c[k].ref]]
              [] c[k].t = "sec" -> [t |-> "sec", v |-> ContentTree(d, c[k].ref)]]]

DocValue(d) ==
    [metadata |-> d.metadata, template_path |-> d.template_path,
     sections |-> [k \in 1..Len(d.sections) |-> ContentTree(d, d.sections[k])],
     equations |-> [k \in 1..Len(d.equations) |-> <<d.equations[k][1], d.eqheap[d.equations[k][2]]>>],
     figures |-> [k \in 1..Len(d.figures) |-> <<d.figures[k][1], d.figheap[d.figures[k][2]]>>],
     bibliography |-> d.bibliography, cross_refs |-> d.cross_refs,
     content_blocks |-> d.content_blocks, tables |-> d.tables,
     algorithms |-> d.algorithms, theorems |-> d.theorems]

---------------------------------------------------------------------------
(* The document as a state machine: calls of the API edit the document,    *)
(* save writes it to the file, load reads the file into a new document.    *)
(* Each specification below runs these actions on inputs of its own.       *)

NoCall == [op |-> "none"]

DocInit ==
    /\ doc = NewDoc /\ file = <<>> /\ loaded = NewDoc /\ dpc = "edit" /\ dcall = NoCall
    /\ OthersIdle("doc")

\* a call that edits the document
Edit(after, call) ==
    /\ dpc = "edit"
    /\ doc' = after
    /\ dcall' = call
    /\ UNCHANGED <<file, loaded, dpc, notDoc>>

\* what a call of add_equation, add_figure, add_table or add_theorem leaves
\* in dcall: the collection, the label, the entry made, and the size of the
\* collection and whether it had the label before the call
AddCall(op, coll, label, entry) ==
    [op |-> op, coll |-> coll, label |-> label, entry |-> entry,
     size |-> Len(doc[coll]), had |-> label \in DictKeys(doc[coll])]

SetMetadata(key, value) == Edit(set_metadata(doc, key, value), [op |-> "set_metadata"])

AddSection(title, content, level) ==
    Edit(add_section(doc, title, content, level), [op |-> "add_section"])

AddSubsection(parent, title, content) ==
    Edit(add_subsection(doc, parent, title, content), [op |-> "add_subsection"])

AddText(text, section) == Edit(add_text(doc, text, section), [op |-> "add_text"])

AddEquation(label, latex, a, numbered, section) ==
    Edit(add_equation(doc, label, latex, a, numbered, section),
         AddCall("add_equation", "equations", label,
                 Equation(<<"eq_">> \o NatToStr(Len(doc.equations)), label, latex, <<>>, a,
                          numbered, FALSE)))

AddFigure(label, caption, kleis_code, image_path, section) ==
    Edit(add_figure(doc, label, caption, kleis_code, image_path, None, section),
         AddCall("add_figure", "figures", label,
                 Figure(<<"fig_">> \o NatToStr(Len(doc.figures)), label, caption, kleis_code,
                        image_path)))

AddTable(label, headers, caption) ==
    Edit(add_table(doc, label, headers, <<>>, caption, None),
         AddCall("add_table", "tables", label,
                 [label |-> label, headers |-> headers, rows |-> <<>>, caption |-> caption,
                  kleis_code |-> None]))

AddTheorem(label, kind, statement) ==
    Edit(add_theorem(doc, label, kind, statement, None, None),
         AddCall("add_theorem", "theorems", label,
                 [label |-> label, kind |-> kind, statement |-> statement, proof |-> None,
                  name |-> None]))

AddBibEntry(key, title) ==
    Edit(add_bib_entry(doc, BibEntry(key, <<"article">>, title, <<>>, <<>>, <<>>, <<>>, <<>>,
                                     <<>>, <<>>, <<>>, <<>>)),
         [op |-> "add_bib_entry"])

\* cite(key), ref_equation(label), ref_figure(label), ref_section(label),
\* ref_table(label), ref_theorem(label)
AddCrossRef(ref_type, target) ==
    Edit(add_cross_ref(doc, ref_type, target, None), [op |-> "ref", ref_type |-> ref_type])

\* doc.save(path)
Save ==
    /\ dpc = "edit"
    /\ file' = SaveText(doc)
    /\ dpc' = "saved"
    /\ dcall' = [op |-> "save"]
    /\ UNCHANGED <<doc, loaded, notDoc>>

\* loaded = KleisDoc.load(path)
LoadFile ==
    /\ dpc = "saved"
    /\ loaded' = Load(file)
    /\ dpc' = "loaded"
    /\ dcall' = [dcall EXCEPT !.op = "load"]
    /\ UNCHANGED <<doc, file, notDoc>>

\* errors = d.validate_cross_refs(), for the document being edited or for the
\* one that load returned
Validate ==
    /\ dpc \in {"edit", "loaded"}
    /\ dcall' = [op |-> "validate_cross_refs",
                 errors |-> validate_cross_refs(IF dpc = "edit" THEN doc ELSE loaded)]
    /\ UNCHANGED <<doc, file, loaded, dpc, notDoc>>

---------------------------------------------------------------------------
(* Structure: sections, subsections and content items are added, the       *)
(* document is saved and loaded                                            *)

\* the most sections and the most other content items of a document, and the
\* deepest level given to add_section
MaxSections == 2
MaxItems == 2
MaxSectionLevel == 2

StructTitles == {<<"A">>, <<"B", Q>>}
StructTexts == {<<"t">>}
StructLabels == {<<"e">>}

\* the content items of the document that are no sections
ItemCount(d) ==
    Cardinality({<<i, k>> \in (1..Len(d.heap)) \X (1..(MaxSections + MaxItems)) :
                    k <= Len(d.heap[i].content) /\ d.heap[i].content[k].t # "sec"})

StructNext ==
    \/ \E title \in StructTitles, level \in 1..MaxSectionLevel :
          Len(doc.heap) < MaxSections /\ AddSection(title, <<>>, level)
    \/ \E parent \in 1..Len(doc.heap), title \in StructTitles :
          Len(doc.heap) < MaxSections /\ AddSubsection(parent, title, <<>>)
    \/ \E text \in StructTexts, section \in 0..Len(doc.heap) :
          ItemCount(doc) < MaxItems /\ AddText(text, section)
    \/ \E label \in StructLabels :
          ItemCount(doc) < MaxItems /\ doc.equations = <<>>
          /\ AddEquation(label, <<"x">>, NoneAst, TRUE, 0)
    \/ \E label \in StructLabels :
          ItemCount(doc) < MaxItems /\ doc.figures = <<>>
          /\ AddFigure(label, <<"c">>, None, None, 0)
    \/ Save
    \/ LoadFile

SpecStruct == DocInit /\ [][StructNext]_vars

\* what a reader sees of a content item: a text by its words, an equation or
\* a figure by its label, a subsection by its title
ItemView(d, item) ==
    CASE item.t = "text" -> <<"text", item.s>>
      [] item.t = "eq" -> <<"eq", d.eqheap[item.ref].label>>
      [] item.t = "fig" -> <<"fig", d.figheap[item.ref].label>>
      [] item.t = "sec" -> <<"sec", d.heap[item.ref].title>>

\* the content of each section of d as the reader sees it, the sections in
\* the order of the file
ContentViews(d) ==
    LET order == PreOrderAll(d.heap, d.sections)
    IN [k \in 1..Len(order) |->
          [p \in 1..Len(d.heap[order[k]].content) |-> ItemView(d, d.heap[order[k]].content[p])]]

\* two items that stand in both contents stand in `after` in an order in
\* which they stand in `before`
SameRelativeOrder(before, after) ==
    \A p, q \in 1..Len(after) :
        (/\ p < q
         /\ \E a, b \in 1..Len(before) : a # b /\ before[a] = after[p] /\ before[b] = after[q])
        => \E a, b \in 1..Len(before) : a < b /\ before[a] = after[p] /\ before[b] = after[q]

\* C2: load(save(d)) has the top-level sections of d in their order, each
\* with the title, the level and the subsection tree it has in d
C2_SectionsSurviveRoundTrip ==
    dpc = "loaded" => SectionForest(loaded.heap, loaded.sections) = SectionForest(doc.heap, doc.sections)

\* C3: in load(save(d)) the content items of every section stand in the
\* relative order they have in d
C3_ContentOrderSurvivesRoundTrip ==
    dpc = "loaded" =>
        /\ Len(ContentViews(loaded)) = Len(ContentViews(doc))
        /\ \A k \in 1..Len(ContentViews(doc)) :
              SameRelativeOrder(ContentViews(doc)[k], ContentViews(loaded)[k])

---------------------------------------------------------------------------
(* _substitute_placeholders: the UPPERCASE words of a template are         *)
(* replaced by the metadata or the content blocks of the document.  The    *)
(* template is a text of single characters.                                *)

UpperLetters ==
    <<"A", "B", "C", "D", "E", "F", "G", "H", "I", "J", "K", "L", "M", "N", "O", "P", "Q", "R",
      "S", "T", "U", "V", "W", "X", "Y", "Z">>
\* [A-Z]
IsUpper(c) == \E k \in 1..Len(UpperLetters) : UpperLetters[k] = c
\* str.lower() for a text of single characters
Lower(s) ==
    LET LowerLetters ==
          <<"a", "b", "c", "d", "e", "f", "g", "h", "i", "j", "k", "l", "m", "n", "o", "p", "q",
            "r", "s", "t", "u", "v", "w", "x", "y", "z">>
    IN [i \in 1..Len(s) |->
          IF IsUpper(s[i])
          THEN LowerLetters[CHOOSE k \in 1..Len(UpperLetters) : UpperLetters[k] = s[i]]
          ELSE s[i]]

\* [m.group(1) for m in placeholder_pattern.finditer(template_str)], the
\* pattern being \b([A-Z][A-Z0-9_]+)\b: a word boundary stands before s[i],
\* and after the run of [A-Z0-9_], which ends before e and cannot end
\* earlier, all its characters being word characters
Placeholders(s) ==
    LET Is(c) == IsUpper(c) \/ IsDigit(c) \/ c = "_"
        To(i, e) ==
          IF /\ ~IsWord(At(s, i - 1)) /\ IsUpper(At(s, i))
             /\ e > i + 1 /\ ~IsWord(At(s, e))
          THEN [ok |-> TRUE, from |-> i, to |-> e - 1, v |-> Slice(s, i, e - 1)]
          ELSE NoMatch
    IN Groups(FindIter([i \in 1..Len(s) |-> To(i, Least({e \in (i + 1)..(Len(s) + 1) : ~Is(At(s, e))}))]))

RECURSIVE ReplaceAll(_, _, _)
\* Python's s.replace(old, new) for a non-empty old
ReplaceAll(s, old, new) ==
    IF Len(s) < Len(old) THEN s
    ELSE IF SubSeq(s, 1, Len(old)) = old
         THEN new \o ReplaceAll(SubSeq(s, Len(old) + 1, Len(s)), old, new)
         ELSE <<Head(s)>> \o ReplaceAll(Tail(s), old, new)

\* d.get(k) for a dict of metadata values; [t |-> "None"] stands for None
ValueGet(d, k) == IF k \in DictKeys(d) THEN DictGet(d, k) ELSE [t |-> "None"]

RECURSIVE OrChain(_)
\* a or b or ... or z: the first operand that is true, else the last one
OrChain(xs) ==
    LET \* bool(x) for None and for a metadata value
        Truthy(x) ==
          CASE x.t = "None" -> FALSE
            [] x.t = "bool" -> x.v
            [] x.t = "int" -> x.v # 0
            [] OTHER -> x.v # <<>>
    IN IF Len(xs) = 1 \/ Truthy(Head(xs)) THEN Head(xs) ELSE OrChain(Tail(xs))

\* the value looked up for a placeholder
PlaceholderValue(d, placeholder) ==
    OrChain(<<ValueGet(d.metadata, Replace(Lower(placeholder), "_", <<"-">>)),
              ValueGet(d.metadata, Lower(placeholder)),
              ValueGet(d.metadata, placeholder),
              ValueGet(d.content_blocks, Replace(Lower(placeholder), "_", <<"-">>)),
              ValueGet(d.content_blocks, Lower(placeholder)),
              ValueGet(d.content_blocks, placeholder)>>)

\* what a placeholder is replaced by: " #linebreak()\n      ".join(str(v) for
\* v in value) for a list, whose items are strings in the model, else
\* str(value)
Replacement(value) ==
    CASE value.t = "list" ->
           Join(value.v, <<SP, "#", "l", "i", "n", "e", "b", "r", "e", "a", "k", LP, RP,
                           NL, SP, SP, SP, SP, SP, SP>>)
      [] value.t = "str" -> value.v
      [] value.t = "bool" ->
           IF value.v THEN <<"T", "r", "u", "e">> ELSE <<"F", "a", "l", "s", "e">>
      [] value.t = "int" -> IntToStr(value.v)

RECURSIVE SubstituteEach(_, _, _)
\* the loop over the matches: result = result.replace(placeholder, ...) for
\* each placeholder whose value is not None
SubstituteEach(d, result, placeholders) ==
    LET Replaced(value) ==
          IF value.t # "None" THEN ReplaceAll(result, Head(placeholders), Replacement(value))
          ELSE result
    IN IF placeholders = <<>> THEN result
       ELSE SubstituteEach(d, Replaced(PlaceholderValue(d, Head(placeholders))),
                           Tail(placeholders))

\* _substitute_placeholders(template_str)
substitute_placeholders(d, template_str) ==
    SubstituteEach(d, template_str, Placeholders(template_str))

\* d.set_content_block(name, content)
SetContentBlock(name, content) ==
    Edit(set_content_block(doc, name, content), [op |-> "set_content_block"])

\* result = d._substitute_placeholders(template_str)
SubstitutePlaceholders(template_str) ==
    /\ dpc = "edit"
    /\ dcall' = [op |-> "_substitute_placeholders", template_str |-> template_str,
                 result |-> substitute_placeholders(doc, template_str)]
    /\ dpc' = "rendered"
    /\ UNCHANGED <<doc, file, loaded, notDoc>>

---------------------------------------------------------------------------
(* Metadata: values of every kind are set, the document is saved and       *)
(* loaded                                                                  *)

MetaKeys == {<<"k">>, <<"a", "-", "b">>}
MetaValues ==
    <<StrVal(<<"x">>), StrVal(<<"x", Q>>), BoolVal(TRUE), NumVal(7), NumVal(0 - 1),
      ListVal(<<<<"x">>, <<"y">>>>), ListVal(<<>>),
      Author(<<"n">>, <<>>, <<>>, <<"primary">>), Author(<<"n">>, <<"e">>, <<>>, <<>>),
      AuthorsVal(<<Author(<<"n">>, <<>>, <<>>, <<"primary">>)>>)>>

MetaNext ==
    \/ \E key \in MetaKeys, v \in 1..Len(MetaValues) : SetMetadata(key, MetaValues[v])
    \/ Save
    \/ LoadFile

SpecMeta == DocInit /\ [][MetaNext]_vars

\* two dicts are equal when they have the same keys with the same values, in
\* whatever order
SameDict(a, b) ==
    /\ DictKeys(a) = DictKeys(b)
    /\ \A k \in DictKeys(a) : DictGet(a, k) = DictGet(b, k)

\* C4: the metadata of load(save(d)) has the keys of the metadata of d, with
\* the same values
C4_MetadataSurvivesRoundTrip ==
    dpc = "loaded" => SameDict(loaded.metadata, doc.metadata)

---------------------------------------------------------------------------
(* Labels: equations and figures are added under labels of several         *)
(* shapes, the document is saved and loaded                                *)

\* the most equations and the most figures added
MaxLabelled == 2

Labels == {<<"e", ":", "1">>, <<"e", ".", "1">>, <<"e", Q>>}

LabelsNext ==
    \/ \E label \in Labels :
          Len(doc.eqheap) < MaxLabelled /\ AddEquation(label, <<"x">>, NoneAst, TRUE, 0)
    \/ \E label \in Labels :
          Len(doc.figheap) < MaxLabelled /\ AddFigure(label, <<"c">>, None, None, 0)
    \/ Save
    \/ LoadFile

SpecLabels == DocInit /\ [][LabelsNext]_vars

\* C5: the equations and the figures of load(save(d)) are kept under the
\* labels they have in d
C5_LabelsSurviveRoundTrip ==
    dpc = "loaded" =>
        /\ DictKeys(loaded.equations) = DictKeys(doc.equations)
        /\ DictKeys(loaded.figures) = DictKeys(doc.figures)

---------------------------------------------------------------------------
(* Re-adding: equations, figures, tables and theorems are added under two  *)
(* labels, again and again                                                 *)

\* the most objects of a document that another one can be added to
MaxAdds == 3

AddLabels == {<<"a">>, <<"b">>}
AddTexts == {<<"x">>, <<"y">>}

\* the equations and the figures made, the tables and the theorems kept
Added(d) == Len(d.eqheap) + Len(d.figheap) + Len(d.tables) + Len(d.theorems)

AddNext ==
    \/ \E label \in AddLabels, latex \in AddTexts :
          Added(doc) < MaxAdds /\ AddEquation(label, latex, NoneAst, TRUE, 0)
    \/ \E label \in AddLabels, caption \in AddTexts :
          Added(doc) < MaxAdds /\ AddFigure(label, caption, None, None, 0)
    \/ \E label \in AddLabels, caption \in AddTexts :
          Added(doc) < MaxAdds /\ AddTable(label, <<>>, caption)
    \/ \E label \in AddLabels, statement \in AddTexts :
          Added(doc) < MaxAdds /\ AddTheorem(label, <<"lemma">>, statement)

SpecAdd == DocInit /\ [][AddNext]_vars

AddOps == {"add_equation", "add_figure", "add_table", "add_theorem"}

\* d.<coll>[label], the entry a lookup by the label returns
Lookup(d, coll, label) ==
    CASE coll = "equations" -> d.eqheap[DictGet(d.equations, label)]
      [] coll = "figures" -> d.figheap[DictGet(d.figures, label)]
      [] OTHER -> DictGet(d[coll], label)

\* a dict has one entry for each of its keys
OneEntryPerKey(d) == \A i, j \in 1..Len(d) : d[i][1] = d[j][1] => i = j

\* C8: every collection has one entry per label; after an add call under a
\* label the collection had, its size is what it was, else one more; and a
\* lookup by the label returns the entry just added
C8_ReAddReplaces ==
    /\ \A coll \in {"equations", "figures", "tables", "theorems"} : OneEntryPerKey(doc[coll])
    /\ dcall.op \in AddOps =>
          /\ Len(doc[dcall.coll]) = IF dcall.had THEN dcall.size ELSE dcall.size + 1
          /\ Lookup(doc, dcall.coll, dcall.label) = dcall.entry

\* an entry was added under a label that had another entry
C8_Witness ==
    /\ dcall.op \in AddOps /\ dcall.had
    /\ Len(doc[dcall.coll]) = 2

\* C24: equations registered under distinct labels have distinct ids, and
\* so have figures, whatever add_equation and add_figure calls were made
C24_DistinctLabelsDistinctIds ==
    /\ \A a, b \in DictKeys(doc.equations) :
          a /= b => Lookup(doc, "equations", a).id /= Lookup(doc, "equations", b).id
    /\ \A a, b \in DictKeys(doc.figures) :
          a /= b => Lookup(doc, "figures", a).id /= Lookup(doc, "figures", b).id

\* ids are distinct as long as no label was added twice
C24_DistinctWithoutReAdding ==
    /\ Len(doc.eqheap) = Len(doc.equations) =>
          \A a, b \in DictKeys(doc.equations) :
             a /= b => Lookup(doc, "equations", a).id /= Lookup(doc, "equations", b).id
    /\ Len(doc.figheap) = Len(doc.figures) =>
          \A a, b \in DictKeys(doc.figures) :
             a /= b => Lookup(doc, "figures", a).id /= Lookup(doc, "figures", b).id

---------------------------------------------------------------------------
(* References: objects are added under one label, references of every      *)
(* kind are made to it, and the references are validated before and after  *)
(* the document is saved and loaded                                        *)

\* the most objects and the most references of a document
MaxObjects == 2
MaxRefs == 2

RefLabel == <<"e">>
RefTypes == {<<"bib">>, <<"eq">>, <<"fig">>, <<"sec">>, <<"tab">>, <<"thm">>}

\* the equations, figures, tables, theorems and bibliography entries of d
ObjectCount(d) ==
    Len(d.equations) + Len(d.figures) + Len(d.tables) + Len(d.theorems) + Len(d.bibliography)

RefsNext ==
    \/ ObjectCount(doc) < MaxObjects /\ doc.equations = <<>>
       /\ AddEquation(RefLabel, <<"x">>, NoneAst, TRUE, 0)
    \/ ObjectCount(doc) < MaxObjects /\ doc.figures = <<>>
       /\ AddFigure(RefLabel, <<"c">>, None, None, 0)
    \/ ObjectCount(doc) < MaxObjects /\ doc.tables = <<>> /\ AddTable(RefLabel, <<>>, <<"c">>)
    \/ ObjectCount(doc) < MaxObjects /\ doc.theorems = <<>>
       /\ AddTheorem(RefLabel, <<"lemma">>, <<"s">>)
    \/ ObjectCount(doc) < MaxObjects /\ doc.bibliography = <<>> /\ AddBibEntry(RefLabel, <<"t">>)
    \/ \E ref_type \in RefTypes :
          Len(doc.cross_refs) < MaxRefs /\ AddCrossRef(ref_type, RefLabel)
    \/ Validate
    \/ Save
    \/ LoadFile

SpecRefs == DocInit /\ [][RefsNext]_vars

\* the labels of the collection that matches a kind of reference; a section
\* is known by its title
Targets(d, ref_type) ==
    CASE ref_type = <<"bib">> -> DictKeys(d.bibliography)
      [] ref_type = <<"eq">> -> DictKeys(d.equations)
      [] ref_type = <<"fig">> -> DictKeys(d.figures)
      [] ref_type = <<"sec">> -> {d.heap[i].title : i \in 1..Len(d.heap)}
      [] ref_type = <<"tab">> -> DictKeys(d.tables)
      [] ref_type = <<"thm">> -> DictKeys(d.theorems)

\* the references of d whose target is in no collection of their kind
Dangling(d) ==
    {i \in 1..Len(d.cross_refs) :
        d.cross_refs[i].target \notin Targets(d, d.cross_refs[i].ref_type)}

\* C9: validate_cross_refs returns one message for each reference whose
\* target is absent, for the document edited and for the document loaded
C9_EveryDanglingRefReported ==
    dcall.op = "validate_cross_refs" =>
        Len(dcall.errors) = Cardinality(Dangling(IF dpc = "edit" THEN doc ELSE loaded))

---------------------------------------------------------------------------
(* Placeholders: metadata and content blocks are set, and templates made   *)
(* of a few pieces are substituted                                         *)

\* the most pieces of a template
MaxPieces == 3

Pieces == {<<"T", "T">>, <<"S", "T", "T">>, <<"T", "_", "T">>, <<SP>>, <<"a">>, <<"1">>}
SubstKeys == {<<"t", "t">>, <<"t", "-", "t">>}
SubstValues == <<StrVal(<<"x">>), StrVal(<<>>), ListVal(<<<<"x">>, <<"y">>>>)>>

\* the templates made of at most n pieces
RECURSIVE Templates(_)
Templates(n) ==
    IF n = 0 THEN {<<>>}
    ELSE Templates(n - 1) \cup {t \o p : t \in Templates(n - 1), p \in Pieces}

SubstNext ==
    \/ \E key \in SubstKeys, v \in 1..Len(SubstValues) : SetMetadata(key, SubstValues[v])
    \/ SetContentBlock(<<"t", "t">>, StrVal(<<"z">>))
    \/ \E template_str \in Templates(MaxPieces) : SubstitutePlaceholders(template_str)

SpecSubst == DocInit /\ [][SubstNext]_vars

RECURSIVE OccurInOrder(_, _)
\* the words stand in the text one after the other, in their order
OccurInOrder(text, words) ==
    IF words = <<>> THEN TRUE
    ELSE LET at == {i \in 1..Len(text) : OccursAt(text, Head(words), i)}
         IN at # {} /\ OccurInOrder(SubSeq(text, Least(at) + Len(Head(words)), Len(text)),
                                   Tail(words))

\* the placeholders of a template that have no value in d
Unresolved(d, template_str) ==
    SelectSeq(Placeholders(template_str), LAMBDA p : PlaceholderValue(d, p).t = "None")

\* C10: the placeholders that resolve to no metadata entry and no content
\* block stand in the result as they are written in the template
C10_UnresolvedLeftVerbatim ==
    dcall.op = "_substitute_placeholders" =>
        OccurInOrder(dcall.result, Unresolved(doc, dcall.template_str))

---------------------------------------------------------------------------
(* Precedence of the lookups: metadata before content blocks               *)

\* the key forms of a placeholder, in the order of the lookups: lower case
\* with hyphens, lower case with underscores, the placeholder itself
KeyForms(placeholder) ==
    <<Replace(Lower(placeholder), "_", <<"-">>), Lower(placeholder), placeholder>>

\* the texts that stand for the metadata values kept under the key forms of
\* a placeholder
MetadataTexts(d, placeholder) ==
    {Replacement(DictGet(d.metadata, KeyForms(placeholder)[k])) :
        k \in {j \in 1..3 : KeyForms(placeholder)[j] \in DictKeys(d.metadata)}}

\* C11: a template that is one placeholder, one of whose key forms is a key
\* of the metadata, becomes the text of a metadata value kept under its key
\* forms, whatever the value is and whatever the content blocks hold
C11_MetadataBeforeContentBlocks ==
    (/\ dcall.op = "_substitute_placeholders"
     /\ Placeholders(dcall.template_str) = <<dcall.template_str>>
     /\ MetadataTexts(doc, dcall.template_str) # {})
    => dcall.result \in MetadataTexts(doc, dcall.template_str)

---------------------------------------------------------------------------
(* Malformed text: _parse_ast_expr reads a text that is not a complete     *)
(* constructor expression                                                  *)

\* the texts made of the text of a tree that are not a complete expression:
\* the text cut short, and the text under a constructor that is not known
Malformed(text) ==
    {SubSeq(text, 1, n) : n \in 0..(Len(text) - 1)} \cup {<<"EFoo">> \o Tail(text)}

ParseInit ==
    /\ ast \in Trees
    /\ kleis \in Malformed(AstToKleis(ast))
    /\ parsed = NoneAst /\ cpc = "malformed"
    /\ OthersIdle("codec")

\* parsed = self._parse_ast_expr(kleis) for a malformed text
ParseText ==
    /\ cpc = "malformed"
    /\ parsed' = ParseAstExpr(kleis)
    /\ cpc' = "decoded"
    /\ UNCHANGED <<ast, kleis, notCodec>>

ParseNext == ParseText

SpecParse == ParseInit /\ [][ParseNext]_vars

\* C12: _parse_ast_expr returns None for a text that is not a complete
\* well-formed constructor expression: an unknown constructor, a constructor
\* whose body is cut short, an operation whose argument list is not closed
C12_MalformedDecodesToNone == cpc = "decoded" => parsed = NoneAst

---------------------------------------------------------------------------
(* Records with a field left out: a saved file in which one field line of  *)
(* one record has been deleted is loaded                                    *)

\* the kinds of record, the collection of each and the fields save writes
RecordKinds ==
    <<[kind |-> "Equation", coll |-> "equations",
       fields |-> <<"id", "label", "latex", "typst", "ast", "numbered", "verified">>],
      [kind |-> "Figure", coll |-> "figures",
       fields |-> <<"id", "label", "caption", "source", "typst_fragment", "svg_cache">>],
      [kind |-> "Table", coll |-> "tables", fields |-> <<"label", "headers", "caption">>],
      [kind |-> "Theorem", coll |-> "theorems",
       fields |-> <<"label", "kind", "statement", "proof", "name">>],
      [kind |-> "Algorithm", coll |-> "algorithms",
       fields |-> <<"label", "name", "pseudocode", "caption">>],
      [kind |-> "BibEntry", coll |-> "bibliography", fields |-> BibFields],
      [kind |-> "CrossRef", coll |-> "cross_refs", fields |-> <<"ref_type", "target", "text">>],
      [kind |-> "Section", coll |-> "sections", fields |-> <<"level", "title", "content">>]>>

\* the text without the line of `field` in the first record of `kind`; the
\* record opens at `open` and the line runs from `from` to its line end
WithoutField(text, kind, field) ==
    LET Cut(from, to) == SubSeq(text, 1, from - 1) \o SubSeq(text, to + 1, Len(text))
        Line(from) == Cut(from, Least({j \in from..Len(text) : text[j] = NL}))
        In(open) ==
          Line(Least({i \in open..Len(text) :
                        OccursAt(text, <<NL>> \o Indent \o <<field, SP, "=">>, i)}) + 1)
    IN In(Least({i \in 1..Len(text) : OccursAt(text, <<"=", SP, kind, LP, NL>>, i)}))

\* a document with one record of each kind
OmitDoc(numbered, latex) ==
    LET d1 == add_section(NewDoc, <<"S">>, <<"t">>, 1)
        d2 == add_equation(d1, <<"e">>, latex, Object(<<"x">>), numbered, 0)
        d3 == add_figure(d2, <<"f">>, <<"c">>, <<"k">>, None, None, 0)
        d4 == add_table(d3, <<"t">>, <<<<"a">>, <<"b">>>>, <<>>, <<"c">>, None)
        d5 == add_theorem(d4, <<"h">>, <<"lemma">>, <<"s">>, <<"p">>, <<"n">>)
        d6 == add_algorithm(d5, <<"a">>, <<"n">>, <<"p">>, <<"c">>)
        d7 == add_bib_entry(d6, BibEntry(<<"k">>, <<"book">>, <<"T">>, <<"A">>, <<"1">>, <<"J">>,
                                         <<"2">>, <<"3">>, <<"P">>, <<"d">>, <<"u">>, <<"n">>))
    IN add_cross_ref(d7, <<"eq">>, <<"e">>, <<"r">>)

OmitInit ==
    /\ \E numbered \in BOOLEAN, latex \in {<<"x">>, <<"y">>} : doc = OmitDoc(numbered, latex)
    /\ file = <<>> /\ loaded = NewDoc /\ dpc = "edit" /\ dcall = NoCall
    /\ OthersIdle("doc")

\* the file is edited by hand between save and load: one field line goes
OmitField(k, f) ==
    /\ dpc = "saved" /\ dcall.op = "save"
    /\ file' = WithoutField(file, RecordKinds[k].kind, RecordKinds[k].fields[f])
    /\ dcall' = [op |-> "omit", kind |-> RecordKinds[k].kind, coll |-> RecordKinds[k].coll,
                 field |-> RecordKinds[k].fields[f]]
    /\ UNCHANGED <<doc, loaded, dpc, notDoc>>

OmitNext ==
    \/ Save
    \/ \E k \in DOMAIN RecordKinds : \E f \in DOMAIN RecordKinds[k].fields : OmitField(k, f)
    \/ LoadFile

SpecOmit == OmitInit /\ [][OmitNext]_vars

\* the first record of a collection of document d
FirstRecord(d, coll) ==
    CASE coll = "equations" -> d.eqheap[d.equations[1][2]]
      [] coll = "figures" -> d.figheap[d.figures[1][2]]
      [] coll = "sections" -> d.heap[d.sections[1]]
      [] coll = "cross_refs" -> d.cross_refs[1]
      [] OTHER -> d[coll][1][2]

\* the value a field takes when the text of the record does not have it
FieldDefault(kind, field) ==
    CASE field = "numbered" -> TRUE
      [] field = "verified" -> FALSE
      [] field = "ast" -> NoneAst
      [] field = "level" -> 1
      [] field \in {"proof", "text", "typst_fragment", "svg_cache"} -> None
      [] field = "name" /\ kind = "Theorem" -> None
      [] field = "kind" -> <<"theorem">>
      [] field = "entry_type" -> <<"article">>
      [] OTHER -> <<>>

\* C13: a record whose text omits any one field is still extracted into its
\* collection, the omitted field taking its default; omitting a field never
\* drops the record
C13_OmittedFieldKeepsRecord ==
    (dpc = "loaded" /\ "field" \in DOMAIN dcall)
    => /\ Len(loaded[dcall.coll]) = Len(doc[dcall.coll])
       /\ dcall.field \in DOMAIN FirstRecord(loaded, dcall.coll)
          => FirstRecord(loaded, dcall.coll)[dcall.field] = FieldDefault(dcall.kind, dcall.field)

\* the record is extracted exactly when the field left out is not the one
\* that names it
C13_DroppedIffNamingField ==
    (dpc = "loaded" /\ "field" \in DOMAIN dcall)
    => (Len(loaded[dcall.coll]) = Len(doc[dcall.coll])
        <=> dcall.field \notin {"label", "key", "ref_type", "target"})

---------------------------------------------------------------------------
(* Rendering an equation.  The rendering server is not part of the program: *)
(* whether it is up when a rendering is made, and what it answers to a      *)
(* render request, are chosen freely at every rendering.                    *)

\* _check_server: self._server_available once it is set; else the answer of
\* the health request, which is kept
check_server(available, up) ==
    IF available # "None" THEN available ELSE IF up THEN "True" ELSE "False"

\* render_ast(ast, "typst"): None without a request when the server is not
\* available; else the "output" of the response, None when the request
\* raised or the response has no output
render_ast(available, up, response) ==
    [available |-> check_server(available, up),
     requested |-> check_server(available, up) = "True",
     rendered |-> IF check_server(available, up) = "True" THEN response ELSE None]

\* the text of an equation with typst_content
EquationText(eq, typst_content) ==
    IF typst_content \notin {None, <<>>}
    THEN <<"$", SP>> \o typst_content \o <<SP, "$">>
         \o (IF eq.numbered THEN <<SP, "<">> \o eq.label \o <<">">> ELSE <<>>)
    ELSE <<"// Equation ">> \o eq.label \o <<": no content available">>

\* _equation_to_typst without `eq.typst = rendered`
equation_to_typst_NoCache(eq, available, up, response) ==
    LET NoRequest == [available |-> available, requested |-> FALSE, rendered |-> None]
        Out(r, typst) ==
          [eq |-> eq, available |-> r.available,
           requested |-> r.requested, rendered |-> r.rendered,
           text |-> EquationText(eq, IF eq.ast # NoneAst /\ typst # <<>> THEN typst
                                     ELSE IF eq.latex # <<>> THEN eq.latex ELSE None)]
        With(r) == Out(r, IF r.rendered \notin {None, <<>>} THEN r.rendered ELSE eq.typst)
    IN With(IF eq.ast # NoneAst /\ eq.typst = <<>>
            THEN render_ast(available, up, response) ELSE NoRequest)

\* _equation_to_typst(eq): the Equation after the call, the server state,
\* whether a render request was issued and what it returned, and the text.
\* render_ast is called when the equation has an ast and no typst; what it
\* returns, if not empty, is kept in eq.typst.
equation_to_typst(eq, available, up, response) ==
    LET NoRequest == [available |-> available, requested |-> FALSE, rendered |-> None]
        Out(r, typst) ==
          [eq |-> [eq EXCEPT !.typst = typst], available |-> r.available,
           requested |-> r.requested, rendered |-> r.rendered,
           text |-> EquationText(eq, IF eq.ast # NoneAst /\ typst # <<>> THEN typst
                                     ELSE IF eq.latex # <<>> THEN eq.latex ELSE None)]
        With(r) == Out(r, IF r.rendered \notin {None, <<>>} THEN r.rendered ELSE eq.typst)
    IN With(IF eq.ast # NoneAst /\ eq.typst = <<>>
            THEN render_ast(available, up, response) ELSE NoRequest)

MaxRenderings == 3

\* what a render request can return: None, an empty text, a text
Responses == <<None, <<>>, <<"T">>>>

\* the file of a document with the one equation eq
EquationFile(eq) ==
    SaveText([NewDoc EXCEPT !.eqheap = <<eq>>, !.equations = <<<<eq.label, 1>>>>])

\* a document is opened from a file with one equation record, which may have
\* an ast or none, a typst text or none, a latex text or none
RenderInit ==
    /\ \E a \in {NoneAst, Object(<<"x">>)}, typst \in {<<>>, <<"C">>}, latex \in {<<>>, <<"L">>},
          numbered \in BOOLEAN :
          doc = Load(EquationFile(Equation(<<"eq_0">>, <<"e">>, latex, typst, a, numbered, FALSE)))
    /\ file = <<>> /\ loaded = NewDoc /\ dpc = "edit" /\ dcall = NoCall
    /\ server = "None" /\ renderings = <<>>
    /\ OthersIdle("render")

\* self._equation_to_typst(self.equations[label]) while the server is up or
\* down; a request to a server that is down returns None
EquationToTypst(label, up, response) ==
    LET ref == DictGet(doc.equations, label)
        r == equation_to_typst(doc.eqheap[ref], server, up, response)
    IN /\ dpc = "edit" /\ Len(renderings) < MaxRenderings
       /\ label \in DictKeys(doc.equations)
       /\ ~up => response = None
       /\ doc' = [doc EXCEPT !.eqheap[ref] = r.eq]
       /\ server' = r.available
       /\ renderings' = Append(renderings,
              [label |-> label, up |-> up, requested |-> r.requested, rendered |-> r.rendered,
               before |-> doc.eqheap[ref], text |-> r.text])
       /\ dcall' = [op |-> "_equation_to_typst"]
       /\ UNCHANGED <<file, loaded, dpc, codecVars, hierVars, kernelVars, numericVars>>

RenderNext ==
    \E up \in BOOLEAN, k \in DOMAIN Responses : EquationToTypst(<<"e">>, up, Responses[k])

SpecRender == RenderInit /\ [][RenderNext]_vars

\* the equation of the document that rendering k was made of
Rendered(k) == doc.eqheap[DictGet(doc.equations, renderings[k].label)]

\* C14 as stated: once a render request for an equation has returned, its
\* result is stored on the Equation and no later rendering of that equation
\* issues a request
C14_NoRequestAfterSuccess ==
    \A k \in DOMAIN renderings :
        (renderings[k].requested /\ renderings[k].rendered # None)
        => /\ Rendered(k).typst = renderings[k].rendered
           /\ \A j \in (k + 1)..Len(renderings) :
                 renderings[j].label = renderings[k].label => ~renderings[j].requested

\* C14: once a render request for an equation has returned a text that is
\* not empty, that text is stored in the typst field of the Equation and no
\* later rendering of that equation issues a request
C14_NoRequestAfterText ==
    \A k \in DOMAIN renderings :
        (renderings[k].requested /\ renderings[k].rendered \notin {None, <<>>})
        => /\ Rendered(k).typst = renderings[k].rendered
           /\ \A j \in (k + 1)..Len(renderings) :
                 renderings[j].label = renderings[k].label => ~renderings[j].requested

\* an equation is rendered again, with the server up, after a request for
\* it returned a text
C14_Witness ==
    \E k \in DOMAIN renderings : \E j \in (k + 1)..Len(renderings) :
        /\ renderings[k].requested /\ renderings[k].rendered = <<"T">>
        /\ renderings[j].label = renderings[k].label /\ renderings[j].up
        /\ renderings[j].text = <<"$", SP, "T", SP, "$">>

\* the rendering made last
LastRendering == renderings[Len(renderings)]

\* C15: when the rendering server is down or a render request fails,
\* rendering an equation changes no field of the Equation or of the
\* Document, and the text uses the typst text of the equation if it has one,
\* otherwise its latex text
C15_FailedRenderFallsBack ==
    [][(/\ Len(renderings') = Len(renderings) + 1
        /\ \/ ~LastRendering'.up
           \/ LastRendering'.requested /\ LastRendering'.rendered = None)
       => /\ doc' = doc
          /\ LastRendering'.before.typst # <<>>
             => LastRendering'.text = EquationText(LastRendering'.before,
                                                   LastRendering'.before.typst)
          /\ (LastRendering'.before.typst = <<>> /\ LastRendering'.before.latex # <<>>)
             => LastRendering'.text = EquationText(LastRendering'.before,
                                                   LastRendering'.before.latex)]_vars

\* a failed rendering of an equation that has an ast leaves the document as
\* it is and falls back to the typst text, then to the latex text
C15_FallsBackWithAst ==
    [][(/\ Len(renderings') = Len(renderings) + 1
        /\ LastRendering'.before.ast # NoneAst
        /\ \/ ~LastRendering'.up
           \/ LastRendering'.requested /\ LastRendering'.rendered = None)
       => /\ doc' = doc
          /\ LastRendering'.before.typst # <<>>
             => LastRendering'.text = EquationText(LastRendering'.before,
                                                   LastRendering'.before.typst)
          /\ (LastRendering'.before.typst = <<>> /\ LastRendering'.before.latex # <<>>)
             => LastRendering'.text = EquationText(LastRendering'.before,
                                                   LastRendering'.before.latex)]_vars

---------------------------------------------------------------------------
(* A file that declares a format version                                    *)

MaxVersion == 4

\* the line by which a file declares its format version
VersionLine(v) == <<"define", SP, "format_version", SP, "=", SP, Q>> \o NatToStr(v) \o <<Q, NL>>

\* the file comes from another engine, which declares its format version
\* in the first line
DeclareVersion(v) ==
    /\ dpc = "saved" /\ dcall.op = "save"
    /\ file' = VersionLine(v) \o file
    /\ dcall' = [op |-> "declare", version |-> v]
    /\ UNCHANGED <<doc, loaded, dpc, notDoc>>

VersionNext ==
    \/ \E v \in {<<"a">>, <<"b">>} : SetMetadata(<<"title">>, StrVal(v))
    \/ \E t \in {<<"S">>, <<"T">>} :
          Len(doc.sections) < MaxSections /\ AddSection(t, <<"t">>, 1)
    \/ Save
    \/ \E v \in 2..MaxVersion : DeclareVersion(v)
    \/ LoadFile

SpecVersion == DocInit /\ [][VersionNext]_vars

\* C16: load of a file that declares a format version fails before any
\* collection of the new Document is populated; it never returns a Document
\* that holds a part of the file
C16_VersionMismatchFailsFast ==
    (dpc = "loaded" /\ "version" \in DOMAIN dcall)
    => /\ "error" \in DOMAIN dcall
       /\ loaded.metadata = <<>> /\ loaded.sections = <<>>

---------------------------------------------------------------------------
(* Edits, then save and load: what the file tells of the equations          *)

\* doc.update_equation(label, latex=latex, ast=a)
UpdateEquation(label, latex, a) ==
    Edit(update_equation(doc, label, latex, a),
         [op |-> "update_equation", label |-> label, latex |-> latex])

\* LaTeX texts; most have a backslash
EditLatex == {<<"x">>, <<"y">>, <<BS, "t">>}

EditNext ==
    \/ SetMetadata(<<"title">>, StrVal(<<"T">>))
    \/ doc.sections = <<>> /\ AddSection(<<"S">>, <<>>, 1)
    \/ ItemCount(doc) < MaxItems /\ AddText(<<"t">>, 0)
    \/ \E latex \in EditLatex :
          ItemCount(doc) < MaxItems /\ doc.equations = <<>>
          /\ AddEquation(<<"e">>, latex, NoneAst, TRUE, 0)
    \/ \E latex \in EditLatex : UpdateEquation(<<"e">>, latex, NoneAst)
    \/ ItemCount(doc) < MaxItems /\ doc.figures = <<>>
       /\ AddFigure(<<"f">>, <<"c">>, None, None, 0)
    \/ Save
    \/ LoadFile

SpecEdits == DocInit /\ [][EditNext]_vars

\* the Equation that document d has under a label
EquationOf(d, label) == d.eqheap[DictGet(d.equations, label)]

\* C17: after any sequence of set_metadata, add_section, add_text,
\* add_equation, update_equation and add_figure, save writes the state the
\* document has in memory: load of the file yields, for every equation, the
\* value that the last update set and no earlier one
C17_LoadYieldsLastUpdate ==
    dpc = "loaded"
    => \A i \in 1..Len(doc.equations) :
          /\ doc.equations[i][1] \in DictKeys(loaded.equations)
          /\ EquationOf(loaded, doc.equations[i][1]).latex = doc.eqheap[doc.equations[i][2]].latex
          /\ EquationOf(loaded, doc.equations[i][1]).ast = doc.eqheap[doc.equations[i][2]].ast

\* update_equation leaves the text it was given in the Equation, and for a
\* text without a backslash load of the saved file yields that text
C17_PlainTextSurvives ==
    /\ (dcall.op = "update_equation" /\ dcall.label \in DictKeys(doc.equations))
       => EquationOf(doc, dcall.label).latex = dcall.latex
    /\ dpc = "loaded"
       => \A i \in 1..Len(doc.equations) :
             BS \notin {doc.eqheap[doc.equations[i][2]].latex[k] :
                          k \in 1..Len(doc.eqheap[doc.equations[i][2]].latex)}
             => EquationOf(loaded, doc.equations[i][1]).latex
                = doc.eqheap[doc.equations[i][2]].latex

\* C18: every file that save writes has the import of kleisdoc_types.kleis
\* and a `define doc_metadata = Metadata(` record, so that the
\* `metadata = doc_metadata` of the document assembly is defined in the file
C18_SavedFileDefinesDocMetadata ==
    dpc = "saved"
    => /\ Contains(file, <<"import", SP, Q, "examples/documents/kleisdoc_types", ".kleis", Q, NL>>)
       /\ Contains(file, <<"metadata", SP, "=", SP, "doc_metadata">>)
       /\ Contains(file, <<"define", SP, "doc_metadata", SP, "=", SP, "Metadata", LP>>)

\* every file that save writes has the import and the reference to
\* doc_metadata, and no define of that name
C18_DocMetadataIsNeverDefined ==
    dpc = "saved"
    => /\ Contains(file, <<"import", SP, Q, "examples/documents/kleisdoc_types", ".kleis", Q, NL>>)
       /\ Contains(file, <<"metadata", SP, "=", SP, "doc_metadata">>)
       /\ ~Contains(file, <<"define", SP, "doc_metadata">>)

---------------------------------------------------------------------------
(* The arguments of an Operation, read from a text that goes on after the   *)
(* expression                                                               *)

RECURSIVE IsPlainTree(_)
\* a tree of Object, Const and Operation nodes only
IsPlainTree(a) ==
    \/ a.k \in {"Object", "Const"}
    \/ a.k = "Operation" /\ \A i \in 1..Len(a.args) : IsPlainTree(a.args[i])

\* what follows the expression in the text: nothing, or the rest of the
\* record of an equation
Tails == {<<>>, <<CM, NL, SP, SP, SP, SP, "numbered", SP, "=", SP, "true">>}

ArgsInit ==
    /\ ast \in {t \in Trees : IsPlainTree(t)}
    /\ kleis = <<>> /\ parsed = NoneAst /\ cpc = "tree"
    /\ OthersIdle("codec")

\* save writes the expression into the record of its equation:
\* f'    ast = {self._ast_to_kleis(eq.ast)},' and the fields after it
EncodeInRecord(tail) ==
    /\ cpc = "tree"
    /\ kleis' = AstToKleis(ast) \o tail
    /\ cpc' = "text"
    /\ UNCHANGED <<ast, parsed, notCodec>>

ArgsNext == (\E tail \in Tails : EncodeInRecord(tail)) \/ Decode

SpecArgs == ArgsInit /\ [][ArgsNext]_vars

\* C19: for every tree of Object, Const and Operation nodes, the Operation
\* read back has as many arguments as the one written, in the same order,
\* also when text follows the closing parenthesis of the tree
C19_ArgumentsKeepCountAndOrder ==
    (cpc = "back" /\ ast.k = "Operation")
    => /\ parsed.k = "Operation"
       /\ Len(parsed.args) = Len(ast.args)
       /\ \A i \in 1..Len(ast.args) : parsed.args[i] = ParseAstExpr(AstToKleis(ast.args[i]))

RECURSIVE Symbols(_)
\* the characters of the names and values of a tree
Symbols(a) ==
    IF a.k = "Operation"
    THEN {a.name[i] : i \in 1..Len(a.name)} \cup UNION {Symbols(a.args[i]) : i \in 1..Len(a.args)}
    ELSE {a.v[i] : i \in 1..Len(a.v)}

\* the count and the order of the arguments are kept when no name or value
\* of the tree has a parenthesis or a double quote
C19_KeptWithoutParenthesesAndQuotes ==
    (cpc = "back" /\ ast.k = "Operation" /\ Symbols(ast) \cap {LP, RP, Q} = {})
    => /\ parsed.k = "Operation"
       /\ Len(parsed.args) = Len(ast.args)
       /\ \A i \in 1..Len(ast.args) : parsed.args[i] = ParseAstExpr(AstToKleis(ast.args[i]))

---------------------------------------------------------------------------
(* Quoted fields: strings that go through _to_kleis_string into the file    *)
(* and are read back by load                                                *)

MaxStored == 2

\* strings with and without a double quote, a backslash, a newline
QuotedStrings == {<<"a">>, <<"a", Q, "b">>, <<BS, "a">>, <<"a", NL, "b">>}

\* the texts of the content of section id
TextsOf(d, id) ==
    LET texts == SelectSeq(d.heap[id].content, LAMBDA item : item.t = "text")
    IN [k \in 1..Len(texts) |-> texts[k].s]

\* the sections, text items, equations, figures and metadata entries made
Stored(d) ==
    Len(d.metadata) + Len(d.heap) + Len(d.eqheap) + Len(d.figheap)
    + Cardinality({<<i, k>> \in (1..Len(d.heap)) \X (1..MaxStored) :
                      k <= Len(TextsOf(d, i))})

QuotedNext ==
    \/ \E s \in QuotedStrings :
          Stored(doc) < MaxStored /\ SetMetadata(<<"title">>, StrVal(s))
    \/ \E s \in QuotedStrings :
          Stored(doc) < MaxStored /\ doc.sections = <<>> /\ AddSection(s, <<>>, 1)
    \/ \E s \in QuotedStrings :
          Stored(doc) < MaxStored /\ doc.sections # <<>> /\ AddText(s, 0)
    \/ \E s \in QuotedStrings :
          Stored(doc) < MaxStored /\ doc.equations = <<>>
          /\ AddEquation(<<"e">>, s, NoneAst, TRUE, 0)
    \/ \E s \in QuotedStrings :
          Stored(doc) < MaxStored /\ doc.equations = <<>>
          /\ AddEquation(s, <<"x">>, NoneAst, TRUE, 0)
    \/ \E s \in QuotedStrings :
          Stored(doc) < MaxStored /\ doc.figures = <<>>
          /\ AddFigure(<<"f">>, s, None, None, 0)
    \/ Save
    \/ LoadFile

SpecQuoted == DocInit /\ [][QuotedNext]_vars

\* the strings of the quoted fields of a document: the metadata, the titles
\* and the texts of the sections, the labels and the latex of the equations,
\* the captions of the figures
QuotedFields(d) ==
    [metadata |-> d.metadata,
     titles |-> [k \in 1..Len(d.sections) |-> d.heap[d.sections[k]].title],
     texts |-> [k \in 1..Len(d.sections) |-> TextsOf(d, d.sections[k])],
     latex |-> [k \in 1..Len(d.equations) |->
                  <<d.equations[k][1], d.eqheap[d.equations[k][2]].latex>>],
     captions |-> [k \in 1..Len(d.figures) |-> d.figheap[d.figures[k][2]].caption]]

\* C20: every string stored in a quoted field (section title, text item,
\* label, latex, caption, metadata string) is read back by load exactly as
\* it was, also when it has a double quote, a backslash or a newline
C20_QuotedFieldsReadBackExactly ==
    dpc = "loaded" => QuotedFields(loaded) = QuotedFields(doc)

\* a string without double quote, backslash and newline is written without
\* a backslash, and a file without a backslash is read back exactly
C20_PlainStringsReadBackExactly ==
    (dpc = "loaded" /\ \A i \in 1..Len(file) : file[i] # BS)
    => QuotedFields(loaded) = QuotedFields(doc)

---------------------------------------------------------------------------
(* The template of a document, through save and load                        *)

\* KleisDoc.from_template(template_path): a new document that remembers the
\* path of its template
from_template(template_path) == [NewDoc EXCEPT !.template_path = template_path]

TemplatePaths == {<<"t", ".kleis">>, <<"s", "/", "a", ".kleis">>}

\* doc = KleisDoc.from_template(path), at the start of the session
FromTemplate(path) ==
    /\ doc = NewDoc
    /\ Edit(from_template(path), [op |-> "from_template"])

TemplateNext ==
    \/ \E path \in TemplatePaths : FromTemplate(path)
    \/ \E v \in {<<"a">>, <<"b">>} : SetMetadata(<<"title">>, StrVal(v))
    \/ \E t \in {<<"S">>, <<"T">>} :
          Len(doc.sections) < MaxSections /\ AddSection(t, <<"t">>, 1)
    \/ Save
    \/ LoadFile

SpecTemplate == DocInit /\ [][TemplateNext]_vars

\* C21: load restores the template path that was saved:
\* load(save(d)).template_path is d.template_path when d has a template, and
\* is unset when d has none
C21_TemplatePathSurvivesRoundTrip ==
    dpc = "loaded" => loaded.template_path = doc.template_path

\* whatever the template of d, load(save(d)).template_path is the path of
\* the import that save writes first
C21_LoadedTemplateIsTheTypesImport ==
    dpc = "loaded" => loaded.template_path = <<"examples/documents/kleisdoc_types", ".kleis">>

---------------------------------------------------------------------------
(* Two metadata records under one key.  The keys a-b and a_b of a document  *)
(* are both written as meta_a_b.                                            *)

DupKeys == {<<"a", "-", "b">>, <<"a", "_", "b">>}

\* two values of each shape
DupValues ==
    <<Author(<<"n">>, <<"e">>, <<"f">>, <<"primary">>), Author(<<"m">>, <<"e">>, <<"f">>, <<"primary">>),
      AuthorsVal(<<Author(<<"n">>, <<"e">>, <<"f">>, <<"primary">>)>>),
      AuthorsVal(<<Author(<<"m">>, <<"e">>, <<"f">>, <<"primary">>)>>),
      StrVal(<<"x">>), StrVal(<<"y">>), ListVal(<<<<"x">>>>), ListVal(<<<<"y">>>>),
      BoolVal(TRUE), BoolVal(FALSE), NumVal(7), NumVal(8)>>

DupNext ==
    \/ \E key \in DupKeys, v \in 1..Len(DupValues) :
          key \notin DictKeys(doc.metadata) /\ SetMetadata(key, DupValues[v])
    \/ Save
    \/ LoadFile

SpecDup == DocInit /\ [][DupNext]_vars

\* the place of a shape in the order Author, list of Author, string, list
\* of strings, boolean, number
ShapeRank(value) ==
    CASE value.t = "Author" -> 1
      [] value.t = "authors" -> 2
      [] value.t = "str" -> 3
      [] value.t = "list" -> 4
      [] value.t = "bool" -> 5
      [] value.t = "int" -> 6

\* of the records of the file, which stand in the order of d.metadata, the
\* first one of the shape that comes first
FirstOfHighestShape(d) ==
    LET ranks == {ShapeRank(d.metadata[i][2]) : i \in 1..Len(d.metadata)}
    IN d.metadata[Least({i \in 1..Len(d.metadata) :
                            ShapeRank(d.metadata[i][2]) = Least(ranks)})][2]

\* C22: when a file holds two `define meta_<key>` records for one key, of
\* the same or of different shapes, the key is assigned once: the value kept
\* is the first match of the highest-precedence shape, and no later match
\* overwrites it
C22_FirstOfHighestShapeIsKept ==
    (dpc = "loaded" /\ Len(doc.metadata) = 2)
    => /\ Len(loaded.metadata) = 1
       /\ loaded.metadata[1][1] = <<"a", "_", "b">>
       /\ loaded.metadata[1][2].t = FirstOfHighestShape(doc).t
       /\ loaded.metadata[1][2] = FirstOfHighestShape(doc)

\* the claim holds when neither record is an Author or a list of Author
C22_HoldsFromStringsOn ==
    (dpc = "loaded" /\ Len(doc.metadata) = 2
     /\ \A i \in 1..2 : ShapeRank(doc.metadata[i][2]) >= 3)
    => /\ Len(loaded.metadata) = 1
       /\ loaded.metadata[1][2].t = FirstOfHighestShape(doc).t
       /\ loaded.metadata[1][2] = FirstOfHighestShape(doc)

---------------------------------------------------------------------------
(* The symbolic kernel (kernel.py): the session context                    *)
(*                                                                         *)
(* The code of a cell is a text whose command words ("%", "reset", ":",    *)
(* "load", "define", ...) are tokens.  The kleis binary and the file       *)
(* system are the environment: the return code of a run and the content of *)
(* the file a :load names are inputs of the step.                          *)

\* the words that open a definition (definition_patterns, but for `type`)
DefinitionWords == {"structure", "data", "operation", "define", "import", "implements"}

\* KleisKernel._is_definition: some line of the code starts, after white
\* space, with a definition word followed by white space, or with
\* `type <word> =`
is_definition(code) ==
    LET LineStart(j) == j = 1 \/ code[j - 1] = NL
        AtLineStart(i) ==
            \E j \in 1..i : LineStart(j) /\ \A k \in j..(i - 1) : IsSpace(code[k])
        IsName(c) == ~IsSpace(c) /\ c /= "="
        TypeAt(i) ==
            /\ code[i] = "type" /\ i + 3 <= Len(code)
            /\ IsSpace(code[i + 1]) /\ IsName(code[i + 2])
            /\ \/ code[i + 3] = "="
               \/ i + 4 <= Len(code) /\ IsSpace(code[i + 3]) /\ code[i + 4] = "="
    IN \E i \in 1..Len(code) :
          /\ AtLineStart(i)
          /\ \/ code[i] \in DefinitionWords /\ i < Len(code) /\ IsSpace(code[i + 1])
             \/ TypeAt(i)

\* KleisKernel._run_kleis: the return code; 1 without a binary, else the
\* return code rc of the process (1 too when it timed out or did not start)
run_kleis(kleis_binary, rc) == IF ~kleis_binary THEN 1 ELSE rc

\* KleisKernel._load_file: content is the text of the file, None when it
\* cannot be read; rc is the return code of `kleis check`
load_file(self, filepath, content, rc) ==
    IF content = None \/ ~self.kleis_binary THEN [self |-> self, returncode |-> 1]
    ELSE IF rc /= 0 THEN [self |-> self, returncode |-> rc]
    ELSE [self |-> [self EXCEPT !.session_context =
                       Append(@, <<"// Loaded from: ">> \o filepath \o <<NL>> \o content)],
          returncode |-> 0]

\* KleisKernel.do_execute with _handle_magic and _handle_repl_command:
\* the kernel after the cell and the status replied
do_execute_AnyReturncode(self, code, content, rc) ==
    LET code_stripped == Strip(code)
        Reply(k, ok) == [self |-> k, status |-> IF ok THEN "ok" ELSE "error"]
        handle_magic ==
            IF StartsWith(code_stripped, <<"%", "reset">>)
            THEN Reply([self EXCEPT !.session_context = <<>>], TRUE)
            ELSE Reply(self, StartsWith(code_stripped, <<"%", "context">>)
                             \/ StartsWith(code_stripped, <<"%", "version">>))
        loading == load_file(self, Strip(Slice(code_stripped, 4, Len(code_stripped))), content, rc)
        handle_repl_command ==
            IF \E w \in {"type", "eval", "verify", "ast"} : StartsWith(code_stripped, <<":", w, SP>>)
            THEN Reply(self, self.kleis_binary /\ rc = 0)
            ELSE IF StartsWith(code_stripped, <<":", "env">>) THEN Reply(self, TRUE)
            ELSE IF StartsWith(code_stripped, <<":", "load", SP>>)
            THEN Reply(loading.self, loading.returncode = 0)
            ELSE Reply(self, FALSE)
        returncode == run_kleis(self.kleis_binary, rc)
    IN IF StartsWith(code_stripped, <<"%">>) THEN handle_magic
       ELSE IF StartsWith(code_stripped, <<":">>) THEN handle_repl_command
       ELSE Reply(IF is_definition(code)
                  THEN [self EXCEPT !.session_context = Append(@, code)]
                  ELSE self,
                  returncode = 0)
do_execute(self, code, content, rc) ==
    LET code_stripped == Strip(code)
        Reply(k, ok) == [self |-> k, status |-> IF ok THEN "ok" ELSE "error"]
        handle_magic ==
            IF StartsWith(code_stripped, <<"%", "reset">>)
            THEN Reply([self EXCEPT !.session_context = <<>>], TRUE)
            ELSE Reply(self, StartsWith(code_stripped, <<"%", "context">>)
                             \/ StartsWith(code_stripped, <<"%", "version">>))
        loading == load_file(self, Strip(Slice(code_stripped, 4, Len(code_stripped))), content, rc)
        handle_repl_command ==
            IF \E w \in {"type", "eval", "verify", "ast"} : StartsWith(code_stripped, <<":", w, SP>>)
            THEN Reply(self, self.kleis_binary /\ rc = 0)
            ELSE IF StartsWith(code_stripped, <<":", "env">>) THEN Reply(self, TRUE)
            ELSE IF StartsWith(code_stripped, <<":", "load", SP>>)
            THEN Reply(loading.self, loading.returncode = 0)
            ELSE Reply(self, FALSE)
        returncode == run_kleis(self.kleis_binary, rc)
    IN IF StartsWith(code_stripped, <<"%">>) THEN handle_magic
       ELSE IF StartsWith(code_stripped, <<":">>) THEN handle_repl_command
       ELSE Reply(IF returncode = 0 /\ is_definition(code)
                  THEN [self EXCEPT !.session_context = Append(@, code)]
                  ELSE self,
                  returncode = 0)

MaxCells == 3

CellCodes ==
    {<<"%", "reset">>, <<SP, "%", "reset">>, <<"%", "context">>,
     <<":", "load", SP, "f">>, <<":", "env">>, <<":", "type", SP, "x", NL, "define", SP, "y">>,
     <<"define", SP, "x">>, <<SP, "define", SP, "y">>, <<"type", SP, "T", SP, "=", SP, "x">>,
     <<"1">>, <<"x", SP, "define", SP, "z">>, <<"example", SP, "t">>}

KernelInit ==
    /\ \E b \in BOOLEAN : kernel = [kleis_binary |-> b, session_context |-> <<>>]
    /\ cells = <<>>
    /\ OthersIdle("kernel")

\* a cell is executed
DoExecute(code, content, rc) ==
    /\ Len(cells) < MaxCells
    /\ kernel' = do_execute(kernel, code, content, rc).self
    /\ cells' = Append(cells, [code |-> code, content |-> content,
                               status |-> do_execute(kernel, code, content, rc).status])
    /\ UNCHANGED notKernel

KernelNext ==
    \E code \in CellCodes, rc \in {0, 1} :
       \E content \in (IF StartsWith(Strip(code), <<":", "load">>) THEN {None, <<"c">>} ELSE {None}) :
          DoExecute(code, content, rc)

SpecKernel == KernelInit /\ [][KernelNext]_vars

\* a cell that restarts the context
IsReset(cell) == StartsWith(Strip(cell.code), <<"%", "reset">>)
\* a cell that loads a file
IsLoad(cell) == StartsWith(Strip(cell.code), <<":", "load", SP>>)
\* a cell of Kleis code, not a command of the kernel
IsCode(cell) == Strip(cell.code) /= <<>> /\ Strip(cell.code)[1] \notin {"%", ":"}

\* what a cell leaves in the context, <<>> for nothing: its code when it
\* returned success and contains a definition, the file when it loaded one
\* successfully
Contribution(cell) ==
    IF cell.status /= "ok" THEN <<>>
    ELSE IF IsCode(cell) /\ is_definition(cell.code) THEN <<cell.code>>
    ELSE IF IsLoad(cell)
    THEN <<(<<"// Loaded from: ">> \o Strip(Slice(Strip(cell.code), 4, Len(Strip(cell.code))))
            \o <<NL>> \o cell.content)>>
    ELSE <<>>

RECURSIVE SinceReset(_)
\* the contributions of the cells after the last %reset, in execution order
SinceReset(history) ==
    IF history = <<>> THEN <<>>
    ELSE IF IsReset(history[Len(history)]) THEN <<>>
    ELSE SinceReset(SubSeq(history, 1, Len(history) - 1)) \o Contribution(history[Len(history)])

\* C23: after any sequence of executed cells the session context holds, in
\* execution order, exactly the code of the cells since the last %reset that
\* returned success and contain a definition and the files that :load
\* loaded successfully since then; so a failed cell is never in it and after
\* %reset it is empty
C23_ContextIsSuccessfulDefinitionsSinceReset ==
    kernel.session_context = SinceReset(cells)

\* a definition failed, a definition and a load succeeded, and no reset
\* came after them
C23_Witness ==
    /\ Len(cells) = 3 /\ Len(kernel.session_context) = 2
    /\ cells[1].status = "error" /\ IsCode(cells[1]) /\ is_definition(cells[1].code)
    /\ IsLoad(cells[2])

---------------------------------------------------------------------------
(* Rendering an equation whose expression tree is replaced                  *)

\* the trees update_equation puts in place of the tree of the file
NewTrees == {Object(<<"x">>), Object(<<"y">>)}

StaleNext ==
    \/ \E up \in BOOLEAN, k \in DOMAIN Responses : EquationToTypst(<<"e">>, up, Responses[k])
    \/ \E a \in NewTrees :
          a /= doc.eqheap[1].ast /\ UpdateEquation(<<"e">>, None, a)

SpecStale == RenderInit /\ [][StaleNext]_vars

\* C25: the typst text cached on an Equation corresponds to its current
\* tree: when a render request made for one tree returned a text and the
\* equation has another tree now, no rendering puts out that text without a
\* new request
C25_NoTypstOfPreviousTree ==
    \A j, k \in DOMAIN renderings :
        (/\ j < k
         /\ renderings[j].requested /\ renderings[j].rendered \notin {None, <<>>}
         /\ renderings[k].before.ast /= renderings[j].before.ast)
        => \/ renderings[k].requested
           \/ renderings[k].text /= EquationText(renderings[k].before, renderings[j].rendered)

\* update_equation leaves the typst text of the equation as it is
C25_UpdateKeepsTypst ==
    [][dcall'.op = "update_equation" => doc'.eqheap[1].typst = doc.eqheap[1].typst]_vars

---------------------------------------------------------------------------
(* Substitution as one simultaneous replacement of whole tokens            *)

RECURSIVE Simultaneous(_, _, _)
\* the text s from position i on, where each whole token that has a value in
\* d stands replaced by the text of its value and everything else stands as
\* it is written; a replaced token is not looked at again
Simultaneous(d, s, i) ==
    LET e == Least({n \in (i + 1)..(Len(s) + 1) :
                       ~(IsUpper(At(s, n)) \/ IsDigit(At(s, n)) \/ At(s, n) = "_")})
        token == /\ ~IsWord(At(s, i - 1)) /\ IsUpper(At(s, i))
                 /\ e > i + 1 /\ ~IsWord(At(s, e))
        Value(placeholder) ==
            IF PlaceholderValue(d, placeholder).t = "None" THEN placeholder
            ELSE Replacement(PlaceholderValue(d, placeholder))
    IN IF i > Len(s) THEN <<>>
       ELSE IF token THEN Value(Slice(s, i, e - 1)) \o Simultaneous(d, s, e)
       ELSE <<s[i]>> \o Simultaneous(d, s, i + 1)

\* C26: the result of _substitute_placeholders is the template with each
\* whole token replaced by its resolved value, all at once: a token inside
\* a longer token is not replaced
C26_SimultaneousWholeTokens ==
    dcall.op = "_substitute_placeholders" =>
        dcall.result = Simultaneous(doc, dcall.template_str, 1)

\* the result is the simultaneous replacement when no token of the template
\* that has a value occurs in the template a second time inside another word
C26_HoldsWithoutContainedTokens ==
    (/\ dcall.op = "_substitute_placeholders"
     /\ \A k \in 1..Len(Placeholders(dcall.template_str)) :
           \/ PlaceholderValue(doc, Placeholders(dcall.template_str)[k]).t = "None"
           \/ \A i \in 1..Len(dcall.template_str) :
                 OccursAt(dcall.template_str, Placeholders(dcall.template_str)[k], i)
                 => /\ ~IsWord(At(dcall.template_str, i - 1))
                    /\ ~IsWord(At(dcall.template_str,
                                  i + Len(Placeholders(dcall.template_str)[k]))))
    => dcall.result = Simultaneous(doc, dcall.template_str, 1)

---------------------------------------------------------------------------
(* Equations of the sections and equations of the map                      *)

\* the most Equation objects made
MaxEquations == 3

SharedNext ==
    \/ doc.sections = <<>> /\ AddSection(<<"S">>, <<>>, 1)
    \/ \E label \in AddLabels, latex \in AddTexts :
          Len(doc.eqheap) < MaxEquations /\ AddEquation(label, latex, NoneAst, TRUE, 0)
    \/ \E label \in AddLabels : UpdateEquation(label, <<"z">>, NoneAst)
    \/ Save
    \/ LoadFile

SpecShared == DocInit /\ [][SharedNext]_vars

\* every Equation in the content of a section of d is the object that
\* d.equations holds under its label
SectionsShareEquations(d) ==
    \A id \in 1..Len(d.heap) : \A k \in 1..Len(d.heap[id].content) :
        d.heap[id].content[k].t = "eq"
        => /\ d.eqheap[d.heap[id].content[k].ref].label \in DictKeys(d.equations)
           /\ DictGet(d.equations, d.eqheap[d.heap[id].content[k].ref].label)
                 = d.heap[id].content[k].ref

\* C27: every Equation object held in the content of a section is the
\* object registered in the equations map under its label, in the document
\* that is edited and in the document that load returns
C27_SectionEquationIsRegistered ==
    /\ SectionsShareEquations(doc)
    /\ dpc = "loaded" => SectionsShareEquations(loaded)

\* the document that load returns shares its equations with its sections,
\* and so does a document in which no label was added twice
C27_SharedWithoutReAdding ==
    /\ Len(doc.eqheap) = Len(doc.equations) => SectionsShareEquations(doc)
    /\ dpc = "loaded" => SectionsShareEquations(loaded)

---------------------------------------------------------------------------
(* Two round trips: the document that load returned is saved and loaded     *)
(* again                                                                   *)

\* loaded.save(path): the document that load returned is saved as it is; it
\* is the document at hand from now on
SaveLoaded ==
    /\ dpc = "loaded"
    /\ doc' = loaded
    /\ file' = SaveText(loaded)
    /\ dpc' = "resaved"
    /\ dcall' = [op |-> "save"]
    /\ UNCHANGED <<loaded, notDoc>>

\* loaded = KleisDoc.load(path) of the file written by the second save
LoadAgain ==
    /\ dpc = "resaved"
    /\ loaded' = Load(file)
    /\ dpc' = "reloaded"
    /\ dcall' = [op |-> "load"]
    /\ UNCHANGED <<doc, file, notDoc>>

TwiceNext ==
    \/ StructNext
    \/ SaveLoaded
    \/ LoadAgain

SpecTwice == DocInit /\ [][TwiceNext]_vars

RECURSIVE Shape(_, _)
\* the structure of a section: its level, and its content items in order, a
\* text by its words, an equation or a figure by its label, a subsection by
\* its own structure
Shape(d, id) ==
    LET c == d.heap[id].content
    IN [level |-> d.heap[id].level,
        content |-> [k \in 1..Len(c) |->
            CASE c[k].t = "text" -> [t |-> "text", v |-> c[k].s]
              [] c[k].t = "eq" -> [t |-> "eq", v |-> d.eqheap[c[k].ref].label]
              [] c[k].t = "fig" -> [t |-> "fig", v |-> d.figheap[c[k].ref].label]
              [] c[k].t = "sec" -> [t |-> "sec", v |-> Shape(d, c[k].ref)]]]

\* the structure of a document: the structures of its sections in order
Structure(d) == [k \in 1..Len(d.sections) |-> Shape(d, d.sections[k])]

\* the document at hand is one that load returned, and it was saved and
\* loaded again
LoadedTwice == dpc = "reloaded"

\* C28: load(save(load(save(d)))) has the section levels, the nesting, the
\* order of the sections and the order of the content items of
\* load(save(d))
C28_SecondRoundTripKeepsStructure ==
    LoadedTwice => Structure(loaded) = Structure(doc)

\* a document whose first round trip moved a subsection behind a text, and
\* which has a second level, went through the second round trip
C28_Witness ==
    /\ LoadedTwice
    /\ Len(doc.heap) = 2 /\ Len(doc.sections) = 1
    /\ Len(doc.heap[doc.sections[1]].content) = 2
    /\ doc.heap[doc.sections[1]].content[1].t = "text"
    /\ doc.heap[doc.sections[1]].content[2].t = "sec"

---------------------------------------------------------------------------
(* The numeric kernel (numeric_kernel.py): one thread executes the cells,  *)
(* one reader thread per REPL process started moves the lines of the       *)
(* standard output of self._repl_process to self._output_queue.            *)
(*                                                                         *)
(* The REPL is the environment: it answers a command with some lines, one  *)
(* by one and as late as it likes, and it may die.  A line is kept with    *)
(* the number of the command it answers, 0 for the banner; the program     *)
(* sees its text only.                                                     *)

\* the most REPL processes started and the most commands sent
MaxProcs == 2
MaxCommands == 2

\* the text of a prompt line
PromptText == "prompt>"
Line(c, text) == [cmd |-> c, text |-> text]
ReplBanner == <<Line(0, PromptText)>>
\* what the REPL may answer to command c: a result and the prompt, or the
\* same after a blank line
Answers(c) ==
    <<(<<Line(c, "r"), Line(c, PromptText)>>),
      (<<Line(c, ""), Line(c, "r"), Line(c, PromptText)>>)>>

Idle == [pc |-> "idle", ret |-> "idle", cmd |-> 0, lines |-> <<>>]

\* KleisNumericKernel.__init__: the queue is made and _start_repl is called;
\* Popen starts a process or fails
NumericInit ==
    /\ \/ /\ repl_process = 1
          /\ procs = <<[alive |-> TRUE, todo |-> ReplBanner, stdout |-> <<>>]>>
          /\ readers = <<[pc |-> "test", proc |-> 0]>>
          /\ main = [Idle EXCEPT !.pc = "wait"]
       \/ /\ repl_process = 0 /\ procs = <<>> /\ readers = <<>> /\ main = Idle
    /\ output_queue = <<>> /\ returned = <<>>
    /\ OthersIdle("numeric")

\* the lines _send_command returns of the lines it waited for: the prompt
\* lines are skipped, and strip() drops the blank lines at both ends
CleanOutput(lines) ==
    LET result_lines == SelectSeq(lines, LAMBDA l : l.text /= PromptText)
        keep == {i \in 1..Len(result_lines) : result_lines[i].text /= ""}
    IN IF keep = {} THEN <<>> ELSE Slice(result_lines, Least(keep), Greatest(keep))

\* _start_repl, called by %reset or by _send_command: Popen starts a
\* process, which becomes self._repl_process, and a reader thread is
\* started; then the banner is waited for.  When Popen fails,
\* self._repl_process is None, and _send_command returns an error text.
StartRepl(ok) ==
    /\ main.pc = "start"
    /\ IF ok
       THEN /\ repl_process' = Len(procs) + 1
            /\ procs' = Append(procs, [alive |-> TRUE, todo |-> ReplBanner, stdout |-> <<>>])
            /\ readers' = Append(readers, [pc |-> "test", proc |-> 0])
            /\ main' = [main EXCEPT !.pc = "wait", !.lines = <<>>]
            /\ UNCHANGED returned
       ELSE /\ repl_process' = 0
            /\ main' = Idle
            /\ returned' = IF main.ret = "clear"
                           THEN Append(returned, [cmd |-> main.cmd, error |-> TRUE, lines |-> <<>>])
                           ELSE returned
            /\ UNCHANGED <<procs, readers>>
    /\ UNCHANGED <<output_queue, notNumeric>>

\* one step of the reader thread r in _read_output: the test of the loop,
\* which reads self._repl_process and polls it; the call of readline on
\* self._repl_process.stdout, which reads self._repl_process again; and the
\* return of readline with a line, which is put in the queue, or at the end
\* of the output of a process that has ended
ReadOutput(r) ==
    /\ readers[r].pc /= "done"
    /\ readers[r].pc = "readline"
       => (procs[readers[r].proc].stdout /= <<>> \/ ~procs[readers[r].proc].alive)
    /\ readers' =
         [readers EXCEPT ![r] =
            CASE @.pc = "test" ->
                   [@ EXCEPT !.pc = IF repl_process /= 0 /\ procs[repl_process].alive
                                    THEN "call" ELSE "done"]
              [] @.pc = "call" ->
                   IF repl_process = 0 THEN [@ EXCEPT !.pc = "done"]
                   ELSE [pc |-> "readline", proc |-> repl_process]
              [] @.pc = "readline" -> [@ EXCEPT !.pc = "test"]]
    /\ IF readers[r].pc = "readline" /\ procs[readers[r].proc].stdout /= <<>>
       THEN /\ output_queue' = Append(output_queue, Head(procs[readers[r].proc].stdout))
            /\ procs' = [procs EXCEPT ![readers[r].proc].stdout = Tail(@)]
       ELSE UNCHANGED <<output_queue, procs>>
    /\ UNCHANGED <<repl_process, main, returned, notNumeric>>

\* one step of _wait_for_prompt: a line is taken from the queue, or a get
\* ends with Empty after a blank line, or the time of the wait is over.
\* The wait ends at a prompt line, at Empty after a blank line, and when the
\* time is over; then _start_repl returns, or _send_command cleans the
\* output and returns it.
WaitForPrompt(timeout) ==
    LET line == Head(output_queue)
        taken == Append(main.lines, line)
        Finish(lines) ==
            /\ main' = IF main.ret = "clear" THEN [main EXCEPT !.pc = "clear", !.lines = <<>>]
                       ELSE Idle
            /\ returned' = IF main.ret = "return"
                           THEN Append(returned, [cmd |-> main.cmd, error |-> FALSE,
                                                  lines |-> CleanOutput(lines)])
                           ELSE returned
    IN /\ main.pc \in {"wait", "blank"}
       /\ IF timeout
          THEN /\ main.pc = "blank" => output_queue = <<>>
               /\ Finish(main.lines)
               /\ UNCHANGED output_queue
          ELSE /\ output_queue /= <<>>
               /\ output_queue' = Tail(output_queue)
               /\ IF line.text = PromptText THEN Finish(taken)
                  ELSE /\ main' = [main EXCEPT !.lines = taken,
                                               !.pc = IF main.pc = "wait" /\ line.text = ""
                                                      THEN "blank" ELSE "wait"]
                       /\ UNCHANGED returned
       /\ UNCHANGED <<repl_process, procs, readers, notNumeric>>

\* one step of do_execute and _send_command for command c: the REPL is
\* started again when it has ended; the pending output is cleared; the
\* command is written, which the REPL will answer with an answer of its
\* choice, and the answer is waited for
SendCommand(c, answer) ==
    /\ main.pc \in {"idle", "clear", "write"}
    /\ CASE main.pc = "idle" ->
              /\ repl_process /= 0 /\ c = Len(returned) + 1 /\ c <= MaxCommands
              /\ ~procs[repl_process].alive => Len(procs) < MaxProcs
              /\ main' = IF procs[repl_process].alive
                         THEN [pc |-> "clear", ret |-> "return", cmd |-> c, lines |-> <<>>]
                         ELSE [pc |-> "start", ret |-> "clear", cmd |-> c, lines |-> <<>>]
              /\ UNCHANGED <<output_queue, procs, returned>>
         [] main.pc = "clear" ->
              /\ c = main.cmd
              /\ output_queue' = <<>>
              /\ main' = [main EXCEPT !.pc = "write", !.ret = "return"]
              /\ UNCHANGED <<procs, returned>>
         [] main.pc = "write" ->
              /\ c = main.cmd
              /\ IF procs[repl_process].alive
                 THEN /\ procs' = [procs EXCEPT ![repl_process].todo = @ \o Answers(c)[answer]]
                      /\ main' = [main EXCEPT !.pc = "wait"]
                      /\ UNCHANGED returned
                 ELSE /\ main' = Idle
                      /\ returned' = Append(returned, [cmd |-> c, error |-> TRUE, lines |-> <<>>])
                      /\ UNCHANGED procs
              /\ UNCHANGED output_queue
    /\ UNCHANGED <<repl_process, readers, notNumeric>>

\* _handle_magic for %reset: the process is terminated and waited for, then
\* _start_repl is called
HandleMagic ==
    /\ main.pc = "idle" /\ Len(procs) < MaxProcs
    /\ procs' = IF repl_process /= 0
                THEN [procs EXCEPT ![repl_process].alive = FALSE, ![repl_process].todo = <<>>]
                ELSE procs
    /\ main' = [Idle EXCEPT !.pc = "start"]
    /\ UNCHANGED <<repl_process, readers, output_queue, returned, notNumeric>>

\* the REPL process p writes the next line of its answers
Emit(p) ==
    /\ procs[p].alive /\ procs[p].todo /= <<>>
    /\ procs' = [procs EXCEPT ![p].todo = Tail(@), ![p].stdout = Append(@, Head(procs[p].todo))]
    /\ UNCHANGED <<repl_process, readers, output_queue, main, returned, notNumeric>>

\* the REPL process p ends of itself
Die(p) ==
    /\ procs[p].alive
    /\ procs' = [procs EXCEPT ![p].alive = FALSE, ![p].todo = <<>>]
    /\ UNCHANGED <<repl_process, readers, output_queue, main, returned, notNumeric>>

NumericNext ==
    \/ \E ok \in BOOLEAN : StartRepl(ok)
    \/ \E r \in DOMAIN readers : ReadOutput(r)
    \/ \E timeout \in BOOLEAN : WaitForPrompt(timeout)
    \/ \E c \in 1..MaxCommands, answer \in 1..2 : SendCommand(c, answer)
    \/ HandleMagic
    \/ \E p \in DOMAIN procs : Emit(p)
    \/ \E p \in DOMAIN procs : Die(p)

SpecNumeric == NumericInit /\ [][NumericNext]_vars

\* the reader threads that have called readline on the standard output of
\* the current REPL process
ReadersOfCurrent ==
    {r \in DOMAIN readers : readers[r].pc = "readline" /\ readers[r].proc = repl_process}

\* C29: at most one reader thread reads the standard output of the current
\* REPL process at any time
C29_OneReaderOfCurrentProcess == Cardinality(ReadersOfCurrent) <= 1

\* C30: the text that _send_command(c) returns holds only lines that the
\* REPL emitted in response to c
C30_OnlyLinesOfTheCommand ==
    \A k \in DOMAIN returned : \A i \in DOMAIN returned[k].lines :
        returned[k].lines[i].cmd = returned[k].cmd

===========================================================================
